---------------------------- MODULE Spec2Model ----------------------------
(***************************************************************************)
(* ARQV40 Enhanced: the three-stage analysis orchestrator                  *)
(* (services/arqv40_enhanced_orchestrator.py) and the 16-module generator  *)
(* (services/enhanced_module_processor.py).                                *)
(*                                                                         *)
(* Spec     one call of execute_complete_analysis, one step per await or   *)
(*          per stage boundary; the collaborators (web navigation, social  *)
(*          search, visual capture, text generation, persistence) answer   *)
(*          nondeterministically: a value, or an exception.                *)
(* SpecGen  one call of generate_all_modules on a session directory that   *)
(*          may hold module files of an earlier run.                       *)
(*                                                                         *)
(* Exceptions are values of class Exception, named by their message.       *)
(* Texts, timestamps and durations are abstracted to tokens.               *)
(***************************************************************************)
EXTENDS Integers, Sequences, FiniteSets, TLC

VARIABLES
    \* ---- execute_complete_analysis ----
    pc,                 \* position of the call
    args,               \* produto, nicho, publico, session_id of the call
    current_session,    \* self.current_session
    log,                \* collaborator calls and stage entries of this call, in order
    websailor_results,  \* result of alibaba_websailor.navigate_and_research_deep
    supadata_results,   \* result of the supadata block
    visual_results,     \* result of the visual-capture block
    all_urls,           \* list returned by _extract_urls_from_results
    captured,           \* the URL lists handed to capture_screenshots, in order
    study_result,       \* text returned by generate_with_active_search
    study_time,         \* seconds the generation call took (line 285)
    contexto,           \* contexto_aprofundado, the value of _process_study_result
    etapa1_result, etapa2_result, etapa3_result,
    pending,            \* the exception travelling to the outer handler
    files,              \* artifacts on disk: <<session, file name>>
    saved,              \* salvar_etapa records
    error_sink,         \* salvar_erro records
    outcome,            \* "none" | "returned" | "raised"
    result,             \* value returned by execute_complete_analysis
    \* ---- generate_all_modules ----
    gpc,                \* position of the call
    gsession,           \* session_id of the call
    gi,                 \* index in modules_list of the module being attempted
    results,            \* the results dict
    module_files,       \* names of the module files on disk under the session
    base_data,          \* relatorio_coleta.md and resumo_sintese.json of the session
    gen_calls,          \* generation calls issued, in order
    gen_raised,         \* modules whose generation call or save raised
    modules_content,    \* the modules_content dict, as its keys in insertion order
    report,             \* relatorio_final_completo.md, when written
    greturn,            \* "none" | "returned" | "raised"
    module_status,      \* the value get_module_status returned last
    \* ---- interleaved calls of execute_complete_analysis ----
    rpc,                \* position of each call
    rsession,           \* the session_id argument of each call
    rresult,            \* the value each call returned
    store,              \* persisted artifacts: <<session, name>> -> the call that wrote it last
    wrote,              \* the artifacts each call has persisted
    \* ---- the collaborators' clients ----
    supadata_available, \* what supadata_client.is_available() answers
    \* ---- SocialMediaExtractor ----
    env_keys,           \* the API keys set in the environment
    search_result,      \* the last per-platform search: its call and what it gave
    platforms_data,     \* the argument of analyze_sentiment_trends
    sentiment_analysis, \* the value analyze_sentiment_trends returned
    \* ---- TrendFinderClient ----
    mcp_url,            \* self.mcp_url
    http_requests,      \* the HTTP requests the client issued, in order
    tf_results          \* what the calls of the client gave, in order

ovars == <<pc, args, current_session, log, websailor_results, supadata_results,
           visual_results, all_urls, captured, study_result, study_time, contexto,
           etapa1_result, etapa2_result, etapa3_result, pending, files, saved,
           error_sink, outcome, result>>
gvars == <<gpc, gsession, gi, results, module_files, base_data, gen_calls,
           gen_raised, modules_content, report, greturn, module_status>>
cvars == <<rpc, rsession, rresult, store, wrote>>
clientvars == <<supadata_available, env_keys, search_result, platforms_data,
                sentiment_analysis, mcp_url, http_requests, tf_results>>
vars == <<ovars, gvars, cvars, clientvars>>

---------------------------------------------------------------------------
(* Inputs and bounds *)

\* longest fontes_detalhadas list the web navigation returns in the model
MaxFontes == 2
\* longest posts list the social search returns in the model
MaxPosts == 2

Urls == {"u1", "u2"}
Produtos == {"", "SkinCare App"}
Nichos == {"beauty-tech"}
Publicos == {"urban women 25-40"}
Sessions == {"s1", "s2"}

SeqsUpTo(S, n) == UNION {[1..k -> S] : k \in 0..n}

Range(s) == {s[i] : i \in DOMAIN s}

Take(s, n) == SubSeq(s, 1, IF Len(s) < n THEN Len(s) ELSE n)

NoDuplicates(q) == \A i, j \in DOMAIN q : i # j => q[i] # q[j]

Reverse(s) == [i \in 1..Len(s) |-> s[Len(s) + 1 - i]]

Rotate(s, r) == [i \in 1..Len(s) |-> s[((i - 1 + r) % Len(s)) + 1]]

\* the orderings of a finite set, as sequences without repetition
Orderings(S) ==
    {s \in [1..Cardinality(S) -> S] : \A i, j \in DOMAIN s : i # j => s[i] # s[j]}

---------------------------------------------------------------------------
(* execute_complete_analysis *)

NoArgs == [produto |-> "", nicho |-> "", publico |-> "", session_id |-> ""]
NoStage == [returned |-> FALSE, success |-> FALSE, error |-> "", artifact |-> ""]
NoResult == [none |-> TRUE]
NoWeb == [conteudo_consolidado |-> FALSE, fontes_detalhadas |-> <<>>]
NoSocial == [success |-> FALSE, error |-> "", posts |-> <<>>, analytics |-> FALSE]
NoVisual == [success |-> FALSE, error |-> "", total_urls |-> 0]
\* the context before _process_study_result has run
NoContext ==
    [kind |-> "none", fields |-> "", fallback_mode |-> FALSE, raw_study |-> <<>>]

\* a guard that lets every stage result pass
StageFailed_Never(etapa_result) == FALSE

\* the stage guard of lines 66 and 75: `if not etapaN_result.get("success")`
StageFailed(etapa_result) == ~etapa_result.success

\* a handler that catches only the two stage-failure exceptions raised inline
OuterCatches_StageFailuresOnly(e) ==
    e \in {"Falha na Etapa 1: Coleta Massiva", "Falha na Etapa 2: Estudo Profundo"}

\* `except Exception as e` of execute_complete_analysis
OuterCatches(e) == TRUE

\* an except clause that drops the error text
StageExcept_NoError(e) ==
    [returned |-> TRUE, success |-> FALSE, error |-> "", artifact |-> ""]

\* the return value of a stage's own `except Exception as e`
StageExcept(e) == [returned |-> TRUE, success |-> FALSE, error |-> e, artifact |-> ""]

\* the return value of a stage that ran to its end, with the artifact it hands on
\* (relatorio_gigante, contexto_aprofundado)
StageOk(a) == [returned |-> TRUE, success |-> TRUE, error |-> "", artifact |-> a]

---------------------------------------------------------------------------
(* generate_all_modules: state *)

\* lines 23-40: self.modules_list
modules_list ==
    <<"anti_objecao", "avatars", "concorrencia", "drivers_mentais", "funil_vendas",
      "insights_mercado", "palavras_chave", "plano_acao", "posicionamento",
      "pre_pitch", "predicoes_futuro", "provas_visuais", "metricas_conversao",
      "estrategia_preco", "canais_aquisicao", "cronograma_lancamento">>

NoResults ==
    [total_modules |-> 0, successful_modules |-> 0, failed_modules |-> 0,
     modules |-> <<>>, errors |-> <<>>]

NoReport ==
    [written |-> FALSE, successful_modules |-> 0, total_modules |-> 0,
     failed_modules |-> 0, taxa_sucesso |-> 0, summary |-> <<>>, sections |-> <<>>]

\* no status report asked for yet
NoStatus == [total_modules |-> 0, generated_modules |-> 0, modules |-> <<>>]

NoBaseData == [relatorio_coleta |-> "absent", resumo_sintese |-> "absent"]

\* no call of generate_all_modules is in progress
GenIdle ==
    /\ gpc = "idle"
    /\ gsession = ""
    /\ gi = 1
    /\ results = NoResults
    /\ module_files = {}
    /\ base_data = NoBaseData
    /\ gen_calls = <<>>
    /\ gen_raised = {}
    /\ modules_content = <<>>
    /\ report = NoReport
    /\ greturn = "none"
    /\ module_status = NoStatus

\* the two calls that share the orchestrator instance of lines 561-562
Runs == {"run1", "run2"}

NoSession == ""

\* no interleaved calls are in progress
RunsIdle ==
    /\ rpc = [r \in Runs |-> "idle"]
    /\ rsession = [r \in Runs |-> NoSession]
    /\ rresult = [r \in Runs |-> NoResult]
    /\ store = <<>>
    /\ wrote = [r \in Runs |-> {}]

\* no per-platform search was made yet
NoSearch ==
    [platform |-> "", max_results |-> 0, http |-> "", status |-> 0, outcome |-> "none"]

NoPlatformsData == <<>>

NoAnalysis == [returned |-> FALSE]

\* os.getenv gives None for a variable that is not set
None == "None"

\* the social media extractor and the trend client are not exercised
ExtractorIdle ==
    /\ env_keys = {}
    /\ search_result = NoSearch
    /\ platforms_data = NoPlatformsData
    /\ sentiment_analysis = NoAnalysis

TrendIdle ==
    /\ mcp_url = None
    /\ http_requests = <<>>
    /\ tf_results = <<>>

---------------------------------------------------------------------------
(* execute_complete_analysis: actions *)

Init ==
    /\ pc = "idle"
    /\ args = NoArgs
    /\ current_session = ""
    /\ log = <<>>
    /\ websailor_results = NoWeb
    /\ supadata_results = NoSocial
    /\ visual_results = NoVisual
    /\ all_urls = <<>>
    /\ captured = <<>>
    /\ study_result = <<>>
    /\ study_time = 0
    /\ contexto = NoContext
    /\ etapa1_result = NoStage
    /\ etapa2_result = NoStage
    /\ etapa3_result = NoStage
    /\ pending = ""
    /\ files = {}
    /\ saved = <<>>
    /\ error_sink = <<>>
    /\ outcome = "none"
    /\ result = NoResult
    /\ GenIdle
    /\ RunsIdle
    /\ supadata_available \in BOOLEAN
    /\ ExtractorIdle
    /\ TrendIdle

\* lines 54-64: the call starts and enters stage 1
Call ==
    /\ pc = "idle"
    /\ \E p \in Produtos, n \in Nichos, a \in Publicos, s \in Sessions :
         /\ args' = [produto |-> p, nicho |-> n, publico |-> a, session_id |-> s]
         /\ current_session' = s
    /\ log' = <<"etapa1">>
    /\ pc' = "e1_websailor"
    /\ UNCHANGED <<websailor_results, supadata_results, visual_results, all_urls,
                   captured, study_result, study_time, contexto, etapa1_result,
                   etapa2_result, etapa3_result, pending, files, saved, error_sink, outcome,
                   result>>
    /\ UNCHANGED gvars
    /\ UNCHANGED cvars
    /\ UNCHANGED clientvars

\* ---- stage 1: _execute_etapa1_coleta_massiva (lines 146-210) ----

\* what navigate_and_research_deep can return: a dict with or without usable
\* consolidated content; sources are listed only with content
WebResults ==
    {[conteudo_consolidado |-> FALSE, fontes_detalhadas |-> <<>>]}
    \cup {[conteudo_consolidado |-> TRUE, fontes_detalhadas |-> f] :
            f \in SeqsUpTo(Urls, MaxFontes)}

\* what supadata_client.search can return
SocialResults ==
    {[success |-> FALSE, error |-> "search failed", posts |-> <<>>, analytics |-> FALSE]}
    \cup {[success |-> TRUE, error |-> "", posts |-> q, analytics |-> FALSE] :
            q \in SeqsUpTo(Urls, MaxPosts)}

\* posts[:10] of line 375
PostsCap == 10
\* all_urls[:15] of line 187
MaxCapture == 15

\* lines 363-377: the urls list before deduplication
CollectedUrls(web, social) ==
    (IF web.conteudo_consolidado THEN web.fontes_detalhadas ELSE <<>>)
    \o (IF social.success /\ social.posts # <<>>
        THEN Take(social.posts, PostsCap) ELSE <<>>)

\* the distinct entries of a list, each at its first appearance
RECURSIVE FirstAppearances(_)
FirstAppearances(urls) ==
    IF urls = <<>> THEN <<>>
    ELSE LET rest == FirstAppearances(SubSeq(urls, 1, Len(urls) - 1))
             last == urls[Len(urls)]
         IN  IF last \in Range(rest) THEN rest ELSE Append(rest, last)

\* a conversion that keeps the list as it is
ListOfSet_NoDedup(urls) == {urls}

\* line 380: list(set(urls)).  The iteration order of a set of strings is not
\* fixed (it follows the string hashes, which change from process to process),
\* so every ordering of the distinct URLs is a possible value.  Up to three
\* URLs all orderings are taken; for more, the rotations of the
\* first-appearance order and their reversals stand for them.
ListOfSet(urls) ==
    LET d == FirstAppearances(urls)
        n == Len(d)
    IN  IF n <= 3 THEN Orderings(Range(d))
        ELSE {Rotate(d, r) : r \in 0..(n - 1)}
             \cup {Reverse(Rotate(d, r)) : r \in 0..(n - 1)}

\* lines 363-380: the URLs of both sources, deduplicated
_extract_urls_from_results(web, social) == ListOfSet(CollectedUrls(web, social))

\* a call that hands every extracted URL to the capture
CaptureArg_All(u) == u

\* line 187: all_urls[:15], the argument of capture_screenshots
CaptureArg(u) == Take(u, MaxCapture)

\* the stage returns through its own except clause
Etapa1Raise(e) ==
    /\ etapa1_result' = StageExcept(e)
    /\ pc' = "check1"

\* lines 147-155: 1.1 web navigation
Etapa1_WebSailor ==
    /\ pc = "e1_websailor"
    /\ log' = Append(log, "websailor")
    /\ \/ \E w \in WebResults :
            /\ websailor_results' = w
            /\ pc' = "e1_supadata"
            /\ UNCHANGED etapa1_result
       \/ /\ Etapa1Raise("websailor raised")
          /\ UNCHANGED websailor_results
    /\ UNCHANGED <<args, current_session, supadata_results, visual_results, all_urls,
                   captured, study_result, study_time, contexto, etapa2_result,
                   etapa3_result, pending,
                   files, saved, error_sink, outcome, result>>
    /\ UNCHANGED gvars
    /\ UNCHANGED cvars
    /\ UNCHANGED clientvars

\* a block that queries the client without asking whether it is available
SupadataQueried_Always(available) == TRUE

\* line 158: if supadata_client.is_available(): the social block queries the
\* client only in the branch of a true answer
SupadataQueried(available) == available

\* line 163: if supadata_results.get("success"): the analytics calls follow a
\* successful search only
AfterSearch(r) == IF r.success THEN "e1_analytics" ELSE "e1_visual"

\* lines 157-160, 175-177: 1.2 social search, when the client is available
Etapa1_SupadataSearch ==
    /\ pc = "e1_supadata"
    /\ \/ \* is_available() is false (lines 175-177)
          /\ ~SupadataQueried(supadata_available)
          /\ supadata_results' = [NoSocial EXCEPT !.error = "Supadata nao configurado"]
          /\ log' = log
          /\ pc' = "e1_visual"
          /\ UNCHANGED etapa1_result
       \/ \E r \in SocialResults :
            /\ SupadataQueried(supadata_available)
            /\ supadata_results' = r
            /\ log' = Append(log, "supadata.search")
            /\ pc' = AfterSearch(r)
            /\ UNCHANGED etapa1_result
       \/ /\ SupadataQueried(supadata_available)
          /\ Etapa1Raise("supadata.search raised")
          /\ log' = Append(log, "supadata.search")
          /\ UNCHANGED supadata_results
    /\ UNCHANGED <<args, current_session, websailor_results, visual_results, all_urls,
                   captured, study_result, study_time, contexto, etapa2_result,
                   etapa3_result, pending,
                   files, saved, error_sink, outcome, result>>
    /\ UNCHANGED gvars
    /\ UNCHANGED cvars
    /\ UNCHANGED clientvars

\* lines 163-174: profile and hashtag analytics after a successful search
Etapa1_SupadataAnalytics ==
    /\ pc = "e1_analytics"
    /\ \/ /\ supadata_results' = [supadata_results EXCEPT !.analytics = TRUE]
          /\ log' = log \o <<"supadata.get_profile_analytics",
                             "supadata.get_hashtag_analytics">>
          /\ pc' = "e1_visual"
          /\ UNCHANGED etapa1_result
       \/ /\ Etapa1Raise("supadata.get_profile_analytics raised")
          /\ log' = Append(log, "supadata.get_profile_analytics")
          /\ UNCHANGED supadata_results
       \/ /\ Etapa1Raise("supadata.get_hashtag_analytics raised")
          /\ log' = log \o <<"supadata.get_profile_analytics",
                             "supadata.get_hashtag_analytics">>
          /\ UNCHANGED supadata_results
    /\ UNCHANGED <<args, current_session, websailor_results, visual_results, all_urls,
                   captured, study_result, study_time, contexto, etapa2_result,
                   etapa3_result, pending,
                   files, saved, error_sink, outcome, result>>
    /\ UNCHANGED gvars
    /\ UNCHANGED cvars
    /\ UNCHANGED clientvars

\* lines 179-190: 1.3 URL extraction and visual capture
Etapa1_Visual ==
    /\ pc = "e1_visual"
    /\ \E u \in _extract_urls_from_results(websailor_results, supadata_results) :
         /\ all_urls' = u
         /\ IF u # <<>>
            THEN /\ log' = Append(log, "visual.capture")
                 /\ captured' = Append(captured, CaptureArg(u))
                 /\ \/ \E ok \in BOOLEAN :
                          /\ visual_results' =
                               [success |-> ok,
                                error |-> IF ok THEN "" ELSE "capture failed",
                                total_urls |-> Len(CaptureArg(u))]
                          /\ pc' = "e1_report"
                          /\ UNCHANGED etapa1_result
                    \/ /\ Etapa1Raise("visual.capture raised")
                       /\ UNCHANGED visual_results
            ELSE /\ visual_results' = [NoVisual EXCEPT !.error = "Nenhuma URL encontrada"]
                 /\ pc' = "e1_report"
                 /\ UNCHANGED <<log, captured, etapa1_result>>
    /\ UNCHANGED <<args, current_session, websailor_results, supadata_results,
                   study_result, study_time, contexto, etapa2_result, etapa3_result,
                   pending, files, saved, error_sink, outcome, result>>
    /\ UNCHANGED gvars
    /\ UNCHANGED cvars
    /\ UNCHANGED clientvars

\* lines 192-206 and 507-518: 1.4 the composite report is built and written,
\* and the stage returns success
Etapa1_Report ==
    /\ pc = "e1_report"
    /\ log' = Append(log, "write relatorio_gigante.md")
    /\ \/ /\ files' = files \cup {<<args.session_id, "relatorio_gigante.md">>}
          /\ etapa1_result' = StageOk("relatorio_gigante")
          /\ pc' = "check1"
       \/ \* mkdir, open or write raises; open may have created the file
          /\ \E created \in BOOLEAN :
               files' = IF created
                        THEN files \cup {<<args.session_id, "relatorio_gigante.md">>}
                        ELSE files
          /\ Etapa1Raise("relatorio_gigante.md not written")
    /\ UNCHANGED <<args, current_session, websailor_results, supadata_results,
                   visual_results, all_urls, captured, study_result, study_time, contexto,
                   etapa2_result,
                   etapa3_result, pending, saved, error_sink, outcome, result>>
    /\ UNCHANGED gvars
    /\ UNCHANGED cvars
    /\ UNCHANGED clientvars

\* lines 66-71: the guard after stage 1
CheckEtapa1 ==
    /\ pc = "check1"
    /\ IF StageFailed(etapa1_result)
       THEN /\ pending' = "Falha na Etapa 1: Coleta Massiva"
            /\ pc' = "except"
            /\ log' = log
       ELSE /\ pending' = pending
            /\ pc' = "e2_study"
            /\ log' = Append(log, "etapa2")
    /\ UNCHANGED <<args, current_session, websailor_results, supadata_results,
                   visual_results, all_urls, captured, study_result, study_time, contexto,
                   etapa1_result,
                   etapa2_result, etapa3_result, files, saved, error_sink, outcome,
                   result>>
    /\ UNCHANGED gvars
    /\ UNCHANGED cvars
    /\ UNCHANGED clientvars

\* ---- stage 2: _execute_etapa2_estudo_profundo (lines 222-312) ----

\* A study text is a sequence of segments; a segment is a run of n characters
\* of one kind.  Prose and payload characters hold no backtick, and no prose
\* run starts with "json", so the fence markers of a text are exactly its
\* fence segments.
JsonFence == [k |-> "json_fence", n |-> 7, id |-> ""]
Fence == [k |-> "fence", n |-> 3, id |-> ""]
Blank == [k |-> "ws", n |-> 1, id |-> ""]
Payload(id) == [k |-> "payload", n |-> 9, id |-> id]
Prose(n) == [k |-> "prose", n |-> n, id |-> ""]

\* most segments in a study text of the model
MaxSegments == 4

\* the segments texts are made of: the two fence markers, whitespace, two
\* well-formed JSON objects, and prose that is shorter and longer than the
\* excerpt caps
Segments ==
    {JsonFence, Fence, Blank, Payload("p1"), Payload("p2"),
     Prose(1), Prose(1200), Prose(2500)}

AllTexts == SeqsUpTo(Segments, MaxSegments)

RECURSIVE CharLen(_)
CharLen(text) == IF text = <<>> THEN 0 ELSE Head(text).n + CharLen(Tail(text))

\* a slice that keeps the whole text
Slice_Whole(text, cap) == text

\* the Python slice text[:cap]
RECURSIVE Slice(_, _)
Slice(text, cap) ==
    IF text = <<>> \/ cap = 0 THEN <<>>
    ELSE IF Head(text).n <= cap
         THEN <<Head(text)>> \o Slice(Tail(text), cap - Head(text).n)
         ELSE <<[Head(text) EXCEPT !.n = cap]>>

\* str.strip() of a slice of the text
Strip(text) ==
    LET solid == {i \in DOMAIN text : text[i].k # "ws"}
        lo == CHOOSE i \in solid : \A j \in solid : i <= j
        hi == CHOOSE i \in solid : \A j \in solid : j <= i
    IN  IF solid = {} THEN <<>> ELSE SubSeq(text, lo, hi)

\* line 544: the cap of the raw excerpt of a text without a JSON fence
RawCap == 2000
\* line 550: the cap of the raw excerpt kept by the except clause
ErrorRawCap == 1000

\* line 528: `end = study_result.rfind("```")`, the last "```" of the
\* text, which is the opening marker itself when no other fence follows it
ClosingFence(text) ==
    LET ticks == {i \in DOMAIN text : text[i].k \in {"json_fence", "fence"}}
    IN  CHOOSE i \in ticks : \A j \in ticks : j <= i

\* lines 520-550: the parsed payload; or the fallback context of a text without
\* "```json" (fallback_mode set, excerpt of RawCap characters); or the dict of
\* the except clause when json.loads raises (no fallback_mode key, excerpt of
\* ErrorRawCap characters).  A key the dict lacks reads as FALSE or <<>>.
_process_study_result(text) ==
    LET marks == {i \in DOMAIN text : text[i].k = "json_fence"}
        first == CHOOSE i \in marks : \A j \in marks : i <= j
        last == ClosingFence(text)
        json_text == Strip(SubSeq(text, first + 1, last - 1))
    IN  IF marks = {}
        THEN [kind |-> "fallback", fields |-> "", fallback_mode |-> TRUE,
              raw_study |-> Slice(text, RawCap)]
        ELSE IF Len(json_text) = 1 /\ json_text[1].k = "payload"
             THEN [kind |-> "structured", fields |-> json_text[1].id,
                   fallback_mode |-> FALSE, raw_study |-> <<>>]
             ELSE [kind |-> "error", fields |-> "", fallback_mode |-> FALSE,
                   raw_study |-> Slice(text, ErrorRawCap)]

\* the texts generate_with_active_search returns in a whole run: one of each
\* outcome of _process_study_result
StudyTexts ==
    {<<Prose(2500)>>,
     <<Prose(1), JsonFence, Payload("p1"), Fence>>,
     <<JsonFence, Prose(1), Fence>>}

\* line 282: max_time_seconds handed to generate_with_active_search
MaxTimeSeconds == 300

\* the seconds the collaborator takes before it returns: within the budget
\* it was handed, or beyond it (the coordinator awaits it without a timeout)
StudyDurations == {30, 300, 900}

Etapa2Raise(e) ==
    /\ etapa2_result' = StageExcept(e)
    /\ pc' = "check2"

\* lines 223-285: availability check, the search-augmented generation call,
\* and the time it took
Etapa2_Study ==
    /\ pc = "e2_study"
    /\ \/ \* enhanced_ai_manager is falsy
          /\ Etapa2Raise("Enhanced AI Manager nao disponivel")
          /\ UNCHANGED <<log, study_result, study_time>>
       \/ \E t \in StudyTexts, d \in StudyDurations :
            /\ study_result' = t
            /\ study_time' = d
            /\ log' = Append(log, "generate_with_active_search")
            /\ pc' = "e2_persist"
            /\ UNCHANGED etapa2_result
       \/ /\ Etapa2Raise("generate_with_active_search raised")
          /\ log' = Append(log, "generate_with_active_search")
          /\ UNCHANGED <<study_result, study_time>>
    /\ UNCHANGED <<args, current_session, websailor_results, supadata_results,
                   visual_results, all_urls, captured, contexto, etapa1_result,
                   etapa3_result, pending, files, saved, error_sink, outcome, result>>
    /\ UNCHANGED gvars
    /\ UNCHANGED cvars
    /\ UNCHANGED clientvars

\* lines 288-308: the study text is processed, the context is written under
\* the session, and the stage returns success
Etapa2_Persist ==
    /\ pc = "e2_persist"
    /\ contexto' = _process_study_result(study_result)
    /\ log' = Append(log, "write contexto_aprofundado.json")
    /\ \/ /\ files' = files \cup {<<args.session_id, "contexto_aprofundado.json">>}
          /\ etapa2_result' = StageOk(contexto'.kind)
          /\ pc' = "check2"
       \/ \* mkdir, open or json.dump raises; open may have created the file
          /\ \E created \in BOOLEAN :
               files' = IF created
                        THEN files \cup {<<args.session_id, "contexto_aprofundado.json">>}
                        ELSE files
          /\ Etapa2Raise("contexto_aprofundado.json not written")
    /\ UNCHANGED <<args, current_session, websailor_results, supadata_results,
                   visual_results, all_urls, captured, study_result, study_time,
                   etapa1_result, etapa3_result, pending, saved, error_sink, outcome,
                   result>>
    /\ UNCHANGED gvars
    /\ UNCHANGED cvars
    /\ UNCHANGED clientvars

\* lines 75-79: the guard after stage 2
CheckEtapa2 ==
    /\ pc = "check2"
    /\ IF StageFailed(etapa2_result)
       THEN /\ pending' = "Falha na Etapa 2: Estudo Profundo"
            /\ pc' = "except"
            /\ log' = log
       ELSE /\ pending' = pending
            /\ pc' = "e3"
            /\ log' = Append(log, "etapa3")
    /\ UNCHANGED <<args, current_session, websailor_results, supadata_results,
                   visual_results, all_urls, captured, study_result, study_time, contexto,
                   etapa1_result,
                   etapa2_result, etapa3_result, files, saved, error_sink, outcome,
                   result>>
    /\ UNCHANGED gvars
    /\ UNCHANGED cvars
    /\ UNCHANGED clientvars

\* ---- stage 3: _execute_etapa3_relatorio_final (lines 323-355) ----

\* the methods class EnhancedModuleProcessor defines
\* (enhanced_module_processor.py, lines 18-755)
ProcessorMethods ==
    {"__init__", "_initialize_prompts", "generate_all_modules",
     "process_all_modules_from_massive_data", "_load_relatorio_coleta",
     "_load_resumo_sintese", "_prepare_main_context", "_get_default_prompt",
     "_save_module", "_generate_consolidated_report", "_build_consolidated_report",
     "get_module_status"}

\* line 325: enhanced_module_processor.process_all_modules(...): the attribute
\* lookup on the processor instance; a name the class does not define raises
\* AttributeError before any module is generated
process_all_modules ==
    IF "process_all_modules" \in ProcessorMethods
    THEN [raised |-> FALSE, error |-> ""]
    ELSE [raised |-> TRUE,
          error |-> "'EnhancedModuleProcessor' object has no attribute 'process_all_modules'"]

\* lines 323-355, the whole stage: module generation, its success check, the
\* report compilation, its success check; any exception becomes success=false
Etapa3 ==
    /\ pc = "e3"
    /\ LET mr == process_all_modules IN
       IF mr.raised
       THEN /\ etapa3_result' = StageExcept(mr.error)
            /\ log' = Append(log, "process_all_modules")
       ELSE \E modules_success \in BOOLEAN, compiled \in {"ok", "failed", "raised"} :
              /\ log' = IF modules_success
                        THEN log \o <<"process_all_modules", "compile_final_markdown_report">>
                        ELSE Append(log, "process_all_modules")
              /\ etapa3_result' =
                   IF ~modules_success THEN StageExcept("Falha na geracao dos modulos")
                   ELSE IF compiled = "failed"
                        THEN StageExcept("Falha na compilacao do relatorio final")
                   ELSE IF compiled = "raised"
                        THEN StageExcept("compile_final_markdown_report raised")
                   ELSE StageOk("relatorio_final")
    /\ pc' = "finish"
    /\ UNCHANGED <<args, current_session, websailor_results, supadata_results,
                   visual_results, all_urls, captured, study_result, study_time, contexto,
                   etapa1_result,
                   etapa2_result, pending, files, saved, error_sink, outcome, result>>
    /\ UNCHANGED gvars
    /\ UNCHANGED cvars
    /\ UNCHANGED clientvars

\* ---- lines 84-122: the final result, its persistence, the outer handler ----

\* lines 87-98: final_result
FinalResult ==
    [success |-> TRUE,
     session_id |-> args.session_id,
     etapas_completadas |-> 3,
     tempo_total |-> "elapsed",
     etapa1_dados |-> etapa1_result,
     etapa2_estudo |-> etapa2_result,
     etapa3_relatorio |-> etapa3_result,
     relatorio_final_path |-> etapa3_result.artifact,
     modulos_gerados |-> IF etapa3_result.success THEN "modulos_count" ELSE "0",
     timestamp |-> "now"]

\* a failure result without the caller's session
FailureResult_Bare(e) == [success |-> FALSE, error |-> e, timestamp |-> "now"]

\* lines 117-122: the failure result
FailureResult(e) ==
    [success |-> FALSE, error |-> e, session_id |-> args.session_id,
     timestamp |-> "now"]

\* lines 110-115: the record handed to salvar_erro
ErrorRecord(e) ==
    [nome |-> "arqv40_analise_completa", erro |-> e,
     contexto |-> [produto |-> args.produto, nicho |-> args.nicho,
                   publico |-> args.publico, session_id |-> args.session_id]]

\* lines 84-106: stage 3 has returned; the final result is built, saved with
\* salvar_etapa and returned; salvar_etapa may raise
Finish ==
    /\ pc = "finish"
    /\ log' = Append(log, "salvar_etapa")
    /\ \/ /\ saved' = Append(saved, [nome |-> "arqv40_analise_completa",
                                     dados |-> FinalResult])
          /\ result' = FinalResult
          /\ outcome' = "returned"
          /\ pc' = "done"
          /\ UNCHANGED pending
       \/ /\ pending' = "salvar_etapa raised"
          /\ pc' = "except"
          /\ UNCHANGED <<saved, result, outcome>>
    /\ UNCHANGED <<args, current_session, websailor_results, supadata_results,
                   visual_results, all_urls, captured, study_result, study_time, contexto,
                   etapa1_result,
                   etapa2_result, etapa3_result, files, error_sink>>
    /\ UNCHANGED gvars
    /\ UNCHANGED cvars
    /\ UNCHANGED clientvars

\* lines 108-122: the outer handler records the error and returns the failure
\* result
Except ==
    /\ pc = "except"
    /\ IF OuterCatches(pending)
       THEN /\ error_sink' = Append(error_sink, ErrorRecord(pending))
            /\ log' = Append(log, "salvar_erro")
            /\ result' = FailureResult(pending)
            /\ outcome' = "returned"
       ELSE /\ outcome' = "raised"
            /\ UNCHANGED <<error_sink, log, result>>
    /\ pc' = "done"
    /\ UNCHANGED <<args, current_session, websailor_results, supadata_results,
                   visual_results, all_urls, captured, study_result, study_time, contexto,
                   etapa1_result,
                   etapa2_result, etapa3_result, pending, files, saved>>
    /\ UNCHANGED gvars
    /\ UNCHANGED cvars
    /\ UNCHANGED clientvars

Next ==
    \/ Call
    \/ Etapa1_WebSailor \/ Etapa1_SupadataSearch \/ Etapa1_SupadataAnalytics
    \/ Etapa1_Visual \/ Etapa1_Report \/ CheckEtapa1
    \/ Etapa2_Study \/ Etapa2_Persist \/ CheckEtapa2
    \/ Etapa3
    \/ Finish
    \/ Except

Spec == Init /\ [][Next]_vars

---------------------------------------------------------------------------
(* generate_all_modules: actions *)

NumModules == Len(modules_list)

ModuleNames == Range(modules_list)

\* line 470: the modules generated with the search tool
SearchModules == {"concorrencia", "predicoes_futuro", "insights_mercado"}

GenSessions == {"s1"}

\* module files an earlier run on the session may have left on disk
EarlierFiles == {{}, {"avatars", "pre_pitch", "cronograma_lancamento"}}

BaseDataStates == {"absent", "empty", "present"}

\* the orchestrator is idle while generate_all_modules is exercised on its own
InitGen ==
    /\ pc = "idle"
    /\ args = NoArgs
    /\ current_session = ""
    /\ log = <<>>
    /\ websailor_results = NoWeb
    /\ supadata_results = NoSocial
    /\ visual_results = NoVisual
    /\ all_urls = <<>>
    /\ captured = <<>>
    /\ study_result = <<>>
    /\ study_time = 0
    /\ contexto = NoContext
    /\ etapa1_result = NoStage
    /\ etapa2_result = NoStage
    /\ etapa3_result = NoStage
    /\ pending = ""
    /\ files = {}
    /\ saved = <<>>
    /\ error_sink = <<>>
    /\ outcome = "none"
    /\ result = NoResult
    /\ gpc = "idle"
    /\ gsession = ""
    /\ gi = 1
    /\ results = NoResults
    /\ module_files \in EarlierFiles
    /\ base_data \in [relatorio_coleta : BaseDataStates, resumo_sintese : BaseDataStates]
    /\ gen_calls = <<>>
    /\ gen_raised = {}
    /\ modules_content = <<>>
    /\ report = NoReport
    /\ greturn = "none"
    /\ module_status = NoStatus
    /\ RunsIdle
    /\ supadata_available = FALSE
    /\ ExtractorIdle
    /\ TrendIdle

\* a check that only looks for the file, and takes an empty content as data
Loaded_NotNone(state) == state # "absent"

\* lines 563-585: a loader returns the content, or None for a missing file;
\* line 439 treats None and an empty content alike
Loaded(state) == state = "present"

\* lines 446-454: the results dict before the loop
InitialResults ==
    [total_modules |-> NumModules, successful_modules |-> 0, failed_modules |-> 0,
     modules |-> <<>>, errors |-> <<>>]

\* lines 434-457: the base data is loaded and checked, the results dict is
\* created; without the base data the call raises (lines 440, 512-514)
GenCall ==
    /\ gpc = "idle"
    /\ \E s \in GenSessions : gsession' = s
    /\ IF Loaded(base_data.relatorio_coleta) /\ Loaded(base_data.resumo_sintese)
       THEN /\ results' = InitialResults
            /\ gi' = 1
            /\ gpc' = "loop"
            /\ greturn' = greturn
       ELSE /\ greturn' = "raised"
            /\ gpc' = "done"
            /\ UNCHANGED <<results, gi>>
    /\ UNCHANGED <<module_files, base_data, gen_calls, gen_raised, modules_content,
                   report, module_status>>
    /\ UNCHANGED ovars
    /\ UNCHANGED cvars
    /\ UNCHANGED clientvars

\* line 476: max_iterations of generate_with_tools
MaxIterations == 3
\* line 480: max_tokens of generate_text
MaxTokens == 4096

\* a selection that sends every module to the plain call
Variant_AlwaysText(module_name) == [name |-> "generate_text", limit |-> MaxTokens]

\* lines 470-480: the generation call of a module and its limit: the
\* if/else issues exactly one of the two calls
Variant(module_name) ==
    IF module_name \in SearchModules
    THEN [name |-> "generate_with_tools", limit |-> MaxIterations]
    ELSE [name |-> "generate_text", limit |-> MaxTokens]

\* a save that keeps the content in memory until the loop is over
_save_module_Batched(on_disk, module_name) == on_disk

\* lines 628-642: the module file is (over)written under the session
_save_module(on_disk, module_name) == on_disk \cup {module_name}

\* an except clause that counts the failure but leaves the module without entry
RecordError_NoEntry(res, module_name, e) ==
    [res EXCEPT !.failed_modules = @ + 1,
                !.errors = Append(@, module_name)]

\* an except clause that writes the entry and the message but forgets the counter
RecordError_Uncounted(res, module_name, e) ==
    [res EXCEPT !.modules = (module_name :> [status |-> "error"]) @@ @,
                !.errors = Append(@, module_name)]

\* lines 494-504: the except clause of the loop body; str(e) is not kept apart
\* in the entry and in the errors list, which hold one line per failed module
RecordError(res, module_name, e) ==
    [res EXCEPT !.modules = (module_name :> [status |-> "error"]) @@ @,
                !.failed_modules = @ + 1,
                !.errors = Append(@, module_name)]

\* an assignment that replaces the whole map by the new entry
RecordSuccess_Reset(res, module_name) ==
    [res EXCEPT !.modules = (module_name :> [status |-> "success"]),
                !.successful_modules = @ + 1]

\* lines 485-490: the entry of a generated and saved module
RecordSuccess(res, module_name) ==
    [res EXCEPT !.modules = (module_name :> [status |-> "success"]) @@ @,
                !.successful_modules = @ + 1]

\* an except clause that gives up on the remaining modules
AfterError_Stop(i) == NumModules + 1

\* an except clause that attempts the failed module again
AfterError_Retry(i) == i

\* line 459: the for loop goes on with the next module after the except clause
AfterError(i) == i + 1

\* lines 459-504: one iteration of the loop: the generation call, the save,
\* the entry in results; an exception of the call or of _save_module is
\* recorded for this module
GenModule ==
    /\ gpc = "loop"
    /\ gi <= NumModules
    /\ LET module_name == modules_list[gi] IN
       /\ gen_calls' = Append(gen_calls,
                              [module |-> module_name, variant |-> Variant(module_name)])
       /\ \/ \* generated and saved
             /\ module_files' = _save_module(module_files, module_name)
             /\ results' = RecordSuccess(results, module_name)
             /\ gi' = gi + 1
             /\ UNCHANGED gen_raised
          \/ \* the generation call raises
             /\ results' = RecordError(results, module_name, "generation raised")
             /\ gi' = AfterError(gi)
             /\ gen_raised' = gen_raised \cup {module_name}
             /\ UNCHANGED module_files
          \/ \* _save_module raises (lines 640-642): no new file
             /\ results' = RecordError(results, module_name, "_save_module raised")
             /\ gi' = AfterError(gi)
             /\ gen_raised' = gen_raised \cup {module_name}
             /\ UNCHANGED module_files
    /\ UNCHANGED <<gpc, gsession, base_data, modules_content, report, greturn,
                   module_status>>
    /\ UNCHANGED ovars
    /\ UNCHANGED cvars
    /\ UNCHANGED clientvars

\* sections written in the order the dict lists its keys
InContent_DictOrder(content) == content

\* lines 694-699: the loop over self.modules_list that writes one section per
\* module found in the dict: the modules of content, in registry order
InContent(content) ==
    LET Test(m) == m \in Range(content) IN SelectSeq(modules_list, Test)

\* a loader that takes every module file found on disk
LoadModulesContent_AnyFile(res, on_disk) ==
    LET Test(m) == m \in on_disk IN SelectSeq(modules_list, Test)

\* lines 650-658: modules_content gets, in the order of self.modules_list, a
\* key for each module with status 'success' whose file exists
LoadModulesContent(res, on_disk) ==
    LET Test(m) == /\ m \in DOMAIN res.modules
                   /\ res.modules[m].status = "success"
                   /\ m \in on_disk
    IN  SelectSeq(modules_list, Test)

\* a marker that shows every module as generated
StatusIcon_AlwaysOk(res, m) == "ok"

\* lines 687-688: the status marker of a summary line; a module without entry
\* reads as 'not_generated'
StatusIcon(res, m) ==
    IF m \in DOMAIN res.modules /\ res.modules[m].status = "success" THEN "ok" ELSE "x"

\* line 689: module_name.replace('_', ' ').title()
Title(module_name) ==
    CASE module_name = "anti_objecao" -> "Anti Objecao"
      [] module_name = "avatars" -> "Avatars"
      [] module_name = "concorrencia" -> "Concorrencia"
      [] module_name = "drivers_mentais" -> "Drivers Mentais"
      [] module_name = "funil_vendas" -> "Funil Vendas"
      [] module_name = "insights_mercado" -> "Insights Mercado"
      [] module_name = "palavras_chave" -> "Palavras Chave"
      [] module_name = "plano_acao" -> "Plano Acao"
      [] module_name = "posicionamento" -> "Posicionamento"
      [] module_name = "pre_pitch" -> "Pre Pitch"
      [] module_name = "predicoes_futuro" -> "Predicoes Futuro"
      [] module_name = "provas_visuais" -> "Provas Visuais"
      [] module_name = "metricas_conversao" -> "Metricas Conversao"
      [] module_name = "estrategia_preco" -> "Estrategia Preco"
      [] module_name = "canais_aquisicao" -> "Canais Aquisicao"
      [] module_name = "cronograma_lancamento" -> "Cronograma Lancamento"

\* a percentage cut to a whole number
Format1f_Whole(num, den) == 10 * ((100 * num) \div den)

\* line 713: f"{(num/den*100):.1f}", in tenths of a percent.  With den = 16 the
\* quotient is an exact binary fraction, and the format rounds it to the
\* nearest tenth, a tie going to the even digit.
Format1f(num, den) ==
    LET q == (1000 * num) \div den
        r == (1000 * num) % den
    IN  IF 2 * r < den THEN q
        ELSE IF 2 * r > den THEN q + 1
        ELSE IF q % 2 = 0 THEN q ELSE q + 1

\* lines 673-720: the consolidated report: header counts, one summary line per
\* registry module, one section per module of the modules_content dict
_build_consolidated_report(res, content) ==
    [written |-> TRUE,
     successful_modules |-> res.successful_modules,
     total_modules |-> res.total_modules,
     failed_modules |-> res.failed_modules,
     taxa_sucesso |-> Format1f(res.successful_modules, res.total_modules),
     summary |-> [i \in 1..NumModules |->
                    <<Title(modules_list[i]), StatusIcon(res, modules_list[i])>>],
     sections |-> InContent(content)]

\* lines 506-510 and 644-671: after the loop the consolidated report is
\* generated (a failure to read or write it is logged and swallowed) and the
\* results dict is returned
GenFinish ==
    /\ gpc = "loop"
    /\ gi > NumModules
    /\ \/ /\ modules_content' = LoadModulesContent(results, module_files)
          /\ report' = _build_consolidated_report(results, modules_content')
       \/ UNCHANGED <<modules_content, report>>
    /\ greturn' = "returned"
    /\ gpc' = "done"
    /\ UNCHANGED <<gsession, gi, results, module_files, base_data, gen_calls,
                   gen_raised, module_status>>
    /\ UNCHANGED ovars
    /\ UNCHANGED cvars
    /\ UNCHANGED clientvars

\* lines 722-755: the status report looks at the module files of the session
\* on disk: a registry module is reported as existing when its file is
\* there, and generated_modules counts those files
get_module_status(on_disk) ==
    [total_modules |-> NumModules,
     generated_modules |-> Cardinality({m \in ModuleNames : m \in on_disk}),
     modules |-> [m \in ModuleNames |-> [exists |-> m \in on_disk]]]

\* lines 722-755: the status of the session is asked for after a call ended
GetModuleStatus ==
    /\ gpc = "done"
    /\ module_status = NoStatus
    /\ module_status' = get_module_status(module_files)
    /\ UNCHANGED <<gpc, gsession, gi, results, module_files, base_data, gen_calls,
                   gen_raised, modules_content, report, greturn>>
    /\ UNCHANGED ovars
    /\ UNCHANGED cvars
    /\ UNCHANGED clientvars

NextGen == GenCall \/ GenModule \/ GenFinish \/ GetModuleStatus

SpecGen == InitGen /\ [][NextGen]_vars

---------------------------------------------------------------------------
(* _build_consolidated_report over any modules_content dict: SpecReport *)

\* most keys of a modules_content dict in SpecReport
MaxContent == 3

\* dicts of module contents, by their keys in any insertion order
ContentDicts == {c \in SeqsUpTo(ModuleNames, MaxContent) : NoDuplicates(c)}

\* the results dict after a loop in which the modules of content succeeded
\* and every other module failed
ResultsFor(content) ==
    LET Failed(mod) == mod \notin Range(content)
    IN  [total_modules |-> NumModules,
         successful_modules |-> Len(content),
         failed_modules |-> NumModules - Len(content),
         modules |-> [mod \in ModuleNames |->
                        [status |-> IF Failed(mod) THEN "error" ELSE "success"]],
         errors |-> SelectSeq(modules_list, Failed)]

\* line 662 reached: the loop is over, modules_content is loaded
InitReport ==
    /\ pc = "idle"
    /\ args = NoArgs
    /\ current_session = ""
    /\ log = <<>>
    /\ websailor_results = NoWeb
    /\ supadata_results = NoSocial
    /\ visual_results = NoVisual
    /\ all_urls = <<>>
    /\ captured = <<>>
    /\ study_result = <<>>
    /\ study_time = 0
    /\ contexto = NoContext
    /\ etapa1_result = NoStage
    /\ etapa2_result = NoStage
    /\ etapa3_result = NoStage
    /\ pending = ""
    /\ files = {}
    /\ saved = <<>>
    /\ error_sink = <<>>
    /\ outcome = "none"
    /\ result = NoResult
    /\ gpc = "report"
    /\ gsession = "s1"
    /\ gi = NumModules + 1
    /\ modules_content \in ContentDicts
    /\ results = ResultsFor(modules_content)
    /\ module_files = Range(modules_content)
    /\ base_data = [relatorio_coleta |-> "present", resumo_sintese |-> "present"]
    /\ gen_calls = [i \in 1..NumModules |->
                      [module |-> modules_list[i], variant |-> Variant(modules_list[i])]]
    /\ gen_raised = ModuleNames \ Range(modules_content)
    /\ report = NoReport
    /\ greturn = "none"
    /\ module_status = NoStatus
    /\ RunsIdle
    /\ supadata_available = FALSE
    /\ ExtractorIdle
    /\ TrendIdle

\* lines 662-667: the report is built from results and modules_content and
\* written
BuildReport ==
    /\ gpc = "report"
    /\ report' = _build_consolidated_report(results, modules_content)
    /\ gpc' = "done"
    /\ UNCHANGED <<gsession, gi, results, module_files, base_data, gen_calls,
                   gen_raised, modules_content, greturn, module_status>>
    /\ UNCHANGED ovars
    /\ UNCHANGED cvars
    /\ UNCHANGED clientvars

NextReport == BuildReport

SpecReport == InitReport /\ [][NextReport]_vars

---------------------------------------------------------------------------
(* URL extraction and visual capture over larger source lists: SpecUrls *)

\* most web sources and most social posts of a collection in SpecUrls
MaxN1 == 8
MaxN2 == 12

\* n1 web sources with the URLs 1..n1, the first one listed twice when
\* `repeated`
WebList(n1, repeated) ==
    [i \in 1..n1 |-> i] \o (IF repeated /\ n1 > 0 THEN <<1>> ELSE <<>>)

\* n2 posts with distinct URLs of which k are URLs of the web sources; the
\* shared ones come first, or last when `shared_last`
PostList(n1, n2, k, shared_last) ==
    LET q == [i \in 1..n2 |-> n1 - k + i]
    IN  IF shared_last THEN Reverse(q) ELSE q

\* lines 179-190 reached after both sources succeeded: web navigation with
\* content and n1 sources, social search with n2 posts and its analytics
InitUrls ==
    /\ pc = "e1_visual"
    /\ args = [produto |-> "SkinCare App", nicho |-> "beauty-tech",
               publico |-> "urban women 25-40", session_id |-> "s1"]
    /\ current_session = "s1"
    /\ log = <<"etapa1", "websailor", "supadata.search",
               "supadata.get_profile_analytics", "supadata.get_hashtag_analytics">>
    /\ \E n1 \in 0..MaxN1, n2 \in 0..MaxN2, repeated, shared_last \in BOOLEAN :
         \E k \in 0..(IF n1 < n2 THEN n1 ELSE n2) :
            /\ websailor_results =
                 [conteudo_consolidado |-> TRUE,
                  fontes_detalhadas |-> WebList(n1, repeated)]
            /\ supadata_results =
                 [success |-> TRUE, error |-> "",
                  posts |-> PostList(n1, n2, k, shared_last), analytics |-> TRUE]
    /\ visual_results = NoVisual
    /\ all_urls = <<>>
    /\ captured = <<>>
    /\ study_result = <<>>
    /\ study_time = 0
    /\ contexto = NoContext
    /\ etapa1_result = NoStage
    /\ etapa2_result = NoStage
    /\ etapa3_result = NoStage
    /\ pending = ""
    /\ files = {}
    /\ saved = <<>>
    /\ error_sink = <<>>
    /\ outcome = "none"
    /\ result = NoResult
    /\ GenIdle
    /\ RunsIdle
    /\ supadata_available = TRUE
    /\ ExtractorIdle
    /\ TrendIdle

NextUrls == Etapa1_Visual \/ Etapa1_Report

SpecUrls == InitUrls /\ [][NextUrls]_vars

---------------------------------------------------------------------------
(* Stage 2 over every study text: SpecStudy *)

\* lines 285-308 reached with any text the collaborator may have returned:
\* stage 1 has found no URL and written its report, the generation call has
\* returned study_result
InitStudy ==
    /\ pc = "e2_persist"
    /\ args = [produto |-> "SkinCare App", nicho |-> "beauty-tech",
               publico |-> "urban women 25-40", session_id |-> "s1"]
    /\ current_session = "s1"
    /\ log = <<"etapa1", "websailor", "write relatorio_gigante.md", "etapa2",
               "generate_with_active_search">>
    /\ websailor_results = NoWeb
    /\ supadata_results = [NoSocial EXCEPT !.error = "Supadata nao configurado"]
    /\ visual_results = [NoVisual EXCEPT !.error = "Nenhuma URL encontrada"]
    /\ all_urls = <<>>
    /\ captured = <<>>
    /\ study_result \in AllTexts
    /\ study_time \in StudyDurations
    /\ contexto = NoContext
    /\ etapa1_result = StageOk("relatorio_gigante")
    /\ etapa2_result = NoStage
    /\ etapa3_result = NoStage
    /\ pending = ""
    /\ files = {<<"s1", "relatorio_gigante.md">>}
    /\ saved = <<>>
    /\ error_sink = <<>>
    /\ outcome = "none"
    /\ result = NoResult
    /\ GenIdle
    /\ RunsIdle
    /\ supadata_available = FALSE
    /\ ExtractorIdle
    /\ TrendIdle

NextStudy == Etapa2_Persist \/ CheckEtapa2

SpecStudy == InitStudy /\ [][NextStudy]_vars

---------------------------------------------------------------------------
(* Two calls of execute_complete_analysis interleaved on one instance: SpecRuns *)

\* SessionStore.put(session_id, key, value): the value replaces whatever the
\* store holds under the session and key it is handed
SessionStorePut(st, session_id, key, r) == (<<session_id, key>> :> r) @@ st

\* a file written under analyses_data/{session_id}/
WriteFile(st, session_id, name, r) == (<<session_id, name>> :> r) @@ st

\* line 101: salvar_etapa("arqv40_analise_completa", final_result,
\* categoria="analise_completa"): the call hands the store a name and the
\* data, and no session id
salvar_etapa(st, nome, r) == SessionStorePut(st, NoSession, nome, r)

\* both calls are about to start, with different session ids
InitRuns ==
    /\ pc = "idle"
    /\ args = NoArgs
    /\ current_session = ""
    /\ log = <<>>
    /\ websailor_results = NoWeb
    /\ supadata_results = NoSocial
    /\ visual_results = NoVisual
    /\ all_urls = <<>>
    /\ captured = <<>>
    /\ study_result = <<>>
    /\ study_time = 0
    /\ contexto = NoContext
    /\ etapa1_result = NoStage
    /\ etapa2_result = NoStage
    /\ etapa3_result = NoStage
    /\ pending = ""
    /\ files = {}
    /\ saved = <<>>
    /\ error_sink = <<>>
    /\ outcome = "none"
    /\ result = NoResult
    /\ GenIdle
    /\ rpc = [r \in Runs |-> "idle"]
    /\ rsession \in {f \in [Runs -> Sessions] : f["run1"] # f["run2"]}
    /\ rresult = [r \in Runs |-> NoResult]
    /\ store = <<>>
    /\ wrote = [r \in Runs |-> {}]
    /\ supadata_available = TRUE
    /\ ExtractorIdle
    /\ TrendIdle

\* the frame of a step of one call: the single-call and generator variables,
\* self.current_session apart
RunFrame ==
    /\ UNCHANGED <<pc, args, log, websailor_results, supadata_results,
                   visual_results, all_urls, captured, study_result, study_time,
                   contexto, etapa1_result, etapa2_result, etapa3_result, pending,
                   files, saved, error_sink, outcome, result>>
    /\ UNCHANGED gvars
    /\ UNCHANGED rsession
    /\ UNCHANGED clientvars

\* the call ends in the outer handler (lines 108-122): salvar_erro, then the
\* failure result with the session_id argument
RunFail(r) ==
    /\ rresult' = [rresult EXCEPT ![r] = [success |-> FALSE, session_id |-> rsession[r]]]
    /\ rpc' = [rpc EXCEPT ![r] = "done"]

\* lines 54-64: the call starts, stores its session in self.current_session
\* and awaits stage 1
RunCall(r) ==
    /\ rpc[r] = "idle"
    /\ current_session' = rsession[r]
    /\ rpc' = [rpc EXCEPT ![r] = "etapa1"]
    /\ UNCHANGED <<rresult, store, wrote>>
    /\ RunFrame

\* lines 61-71 and 507-518: stage 1 writes relatorio_gigante.md under the
\* session_id argument, or fails
RunEtapa1(r) ==
    /\ rpc[r] = "etapa1"
    /\ \/ /\ store' = WriteFile(store, rsession[r], "relatorio_gigante.md", r)
          /\ wrote' = [wrote EXCEPT ![r] = @ \cup {<<rsession[r], "relatorio_gigante.md">>}]
          /\ rpc' = [rpc EXCEPT ![r] = "etapa2"]
          /\ UNCHANGED rresult
       \/ /\ RunFail(r)
          /\ UNCHANGED <<store, wrote>>
    /\ UNCHANGED current_session
    /\ RunFrame

\* lines 73-79 and 291-297: stage 2 writes contexto_aprofundado.json under the
\* session_id argument, or fails
RunEtapa2(r) ==
    /\ rpc[r] = "etapa2"
    /\ \/ /\ store' = WriteFile(store, rsession[r], "contexto_aprofundado.json", r)
          /\ wrote' = [wrote EXCEPT ![r] = @ \cup {<<rsession[r], "contexto_aprofundado.json">>}]
          /\ rpc' = [rpc EXCEPT ![r] = "etapa3"]
          /\ UNCHANGED rresult
       \/ /\ RunFail(r)
          /\ UNCHANGED <<store, wrote>>
    /\ UNCHANGED current_session
    /\ RunFrame

\* lines 80-82 and 323-355: stage 3; the module contents and the final report
\* are written under the session_id argument when the processor call works
RunEtapa3(r) ==
    /\ rpc[r] = "etapa3"
    /\ IF process_all_modules.raised
       THEN UNCHANGED <<store, wrote>>
       ELSE /\ store' = WriteFile(WriteFile(store, rsession[r], "modules", r),
                                  rsession[r], "relatorio_final", r)
            /\ wrote' = [wrote EXCEPT ![r] = @ \cup {<<rsession[r], "modules">>,
                                                     <<rsession[r], "relatorio_final">>}]
    /\ rpc' = [rpc EXCEPT ![r] = "finish"]
    /\ UNCHANGED <<rresult, current_session>>
    /\ RunFrame

\* lines 84-106: the final result is saved with salvar_etapa and returned
RunFinish(r) ==
    /\ rpc[r] = "finish"
    /\ \/ /\ store' = salvar_etapa(store, "arqv40_analise_completa", r)
          /\ wrote' = [wrote EXCEPT ![r] = @ \cup {<<NoSession, "arqv40_analise_completa">>}]
          /\ rresult' = [rresult EXCEPT ![r] = [success |-> TRUE, session_id |-> rsession[r]]]
          /\ rpc' = [rpc EXCEPT ![r] = "done"]
       \/ /\ RunFail(r)
          /\ UNCHANGED <<store, wrote>>
    /\ UNCHANGED current_session
    /\ RunFrame

NextRuns ==
    \E r \in Runs :
        RunCall(r) \/ RunEtapa1(r) \/ RunEtapa2(r) \/ RunEtapa3(r) \/ RunFinish(r)

SpecRuns == InitRuns /\ [][NextRuns]_vars

---------------------------------------------------------------------------
(* Claims about execute_complete_analysis, checked under Spec *)

Called(ev) == \E i \in DOMAIN log : log[i] = ev

IsStageEntry(ev) == ev \in {"etapa1", "etapa2", "etapa3"}

StageEntries == SelectSeq(log, IsStageEntry)

IsPrefix(s, t) == Len(s) <= Len(t) /\ \A i \in DOMAIN s : s[i] = t[i]

Returned == pc = "done" /\ outcome = "returned"

StageResults == {etapa1_result, etapa2_result, etapa3_result}

\* C1: a stage result with success=false ends the run in FAILED: the call
\* returns success=false, never success=true with etapas_completadas=3.
C1_FailedStageEndsFailed ==
    (Returned /\ \E r \in StageResults : r.returned /\ ~r.success)
        => ~result.success

\* C2: the stages are entered at most once each and in the order collection,
\* study, generation; the study stage is entered (and the refined context
\* written) only after collection returned success=true, the generation stage
\* is entered (and the module processor called) only after study returned
\* success=true.
C2_StagesInOrder ==
    /\ IsPrefix(StageEntries, <<"etapa1", "etapa2", "etapa3">>)
    /\ (Called("etapa2") \/ Called("generate_with_active_search")
          \/ Called("write contexto_aprofundado.json")
          \/ <<args.session_id, "contexto_aprofundado.json">> \in files)
         => etapa1_result.returned /\ etapa1_result.success
    /\ (Called("etapa3") \/ Called("process_all_modules") \/ etapa3_result.returned)
         => etapa2_result.returned /\ etapa2_result.success

\* C2 witness: a run that entered all three stages, and the study stage did run
C2_Witness ==
    /\ pc = "done"
    /\ StageEntries = <<"etapa1", "etapa2", "etapa3">>
    /\ <<args.session_id, "contexto_aprofundado.json">> \in files
    /\ Called("process_all_modules")

\* C3: whatever a collaborator raises inside a stage or while the final result
\* is persisted, the call does not raise: it returns a result with a boolean
\* success field.
C3_NeverRaises ==
    /\ outcome # "raised"
    /\ pc = "done" => /\ outcome = "returned"
                      /\ "success" \in DOMAIN result
                      /\ result.success \in BOOLEAN

\* C3 witness: salvar_etapa raised after the three stages, and the call
\* returned the failure result
C3_Witness ==
    /\ Returned
    /\ pending = "salvar_etapa raised"
    /\ Called("salvar_etapa")
    /\ ~result.success

\* the stage whose failure ended the run, and the error it reported
FailedStageName ==
    IF etapa1_result.returned /\ ~etapa1_result.success THEN "etapa1"
    ELSE IF etapa2_result.returned /\ ~etapa2_result.success THEN "etapa2"
    ELSE "etapa3"

TriggeringError ==
    IF etapa1_result.returned /\ ~etapa1_result.success THEN etapa1_result.error
    ELSE IF etapa2_result.returned /\ ~etapa2_result.success THEN etapa2_result.error
    ELSE etapa3_result.error

\* C4: a run that ends in FAILED has written exactly one error record, which
\* carries the name of the failed stage, the triggering error and the original
\* inputs; a run that ends successfully has written none.
C4_ErrorRecordOfFailedStage ==
    Returned =>
        IF ~result.success
        THEN /\ Len(error_sink) = 1
             /\ error_sink[1].contexto = args
             /\ (\E r \in StageResults : r.returned /\ ~r.success)
                  => /\ error_sink[1].nome = FailedStageName
                     /\ error_sink[1].erro = TriggeringError
        ELSE error_sink = <<>>

\* C5: with collection and study successful and the final result saved,
\* failures inside module generation do not fail the run: the generation
\* stage reports success and the call returns success=true.
C5_ModuleFailuresDoNotFailRun ==
    (Returned /\ etapa1_result.success /\ etapa2_result.success
       /\ etapa3_result.returned /\ pending # "salvar_etapa raised")
        => etapa3_result.success /\ result.success

WebOk == websailor_results.conteudo_consolidado
SocialOk == supadata_results.success
VisualOk == visual_results.success

SourcesSucceeded ==
    (IF WebOk THEN 1 ELSE 0) + (IF SocialOk THEN 1 ELSE 0) + (IF VisualOk THEN 1 ELSE 0)

\* C6: the collection stage reports success=false when zero sources succeeded
\* and success=true when at least one did.
C6_SuccessIffSomeSource ==
    etapa1_result.returned => (etapa1_result.success <=> SourcesSucceeded >= 1)

SocialUnavailable == supadata_results.error = "Supadata nao configurado"

\* C7: every configured source is called in every run of the collection
\* stage, whatever the other sources did, and no source's exception by itself
\* makes the stage report failure.
C7_SourcesIndependent ==
    etapa1_result.returned =>
        /\ Called("websailor")
        /\ Called("supadata.search") \/ SocialUnavailable
        /\ Called("visual.capture")
        /\ etapa1_result.error \notin
             {"websailor raised", "supadata.search raised",
              "supadata.get_profile_analytics raised",
              "supadata.get_hashtag_analytics raised", "visual.capture raised"}

---------------------------------------------------------------------------
(* Claims about generate_all_modules, checked under SpecGen *)

GenReturned == gpc = "done" /\ greturn = "returned"

WithStatus(st) == {m \in DOMAIN results.modules : results.modules[m].status = st}

\* C8: after generate_all_modules completes with M of the 16 modules raising,
\* results['modules'] has exactly the 16 registry names as keys, the M raising
\* modules have status 'error' and the other 16-M status 'success',
\* successful_modules = 16-M and failed_modules = M.
C8_ResultMapComplete ==
    GenReturned =>
        LET M == Cardinality(gen_raised) IN
        /\ DOMAIN results.modules = ModuleNames
        /\ WithStatus("error") = gen_raised
        /\ WithStatus("success") = ModuleNames \ gen_raised
        /\ Cardinality(WithStatus("success")) = NumModules - M
        /\ Cardinality(WithStatus("error")) = M
        /\ results.successful_modules = NumModules - M
        /\ results.failed_modules = M

\* C8 witness: a completed run in which exactly two modules raised
C8_Witness ==
    /\ GenReturned
    /\ gen_raised = {"concorrencia", "plano_acao"}
    /\ results.failed_modules = 2

C10_SectionsAreSuccessfulModules ==
    report.written =>
        /\ Range(report.sections) = WithStatus("success")
        /\ NoDuplicates(report.sections)
        /\ Len(report.sections) = results.successful_modules
        /\ Range(report.sections) \cap WithStatus("error") = {}

\* C10 witness: a report written while a failed module still has a file on
\* disk from an earlier run, and other modules succeeded
C10_Witness ==
    /\ report.written
    /\ "avatars" \in module_files
    /\ results.modules["avatars"].status = "error"
    /\ results.successful_modules >= 1

---------------------------------------------------------------------------
(* Claims about the study stage, checked under SpecStudy and Spec *)

\* _process_study_result has returned
Processed == contexto.kind # "none"

HasMarker(text) == \E i \in DOMAIN text : text[i].k = "json_fence"

\* e holds the first characters of t: the same runs, the last one possibly cut
IsPrefixOfText(e, t) ==
    /\ Len(e) <= Len(t)
    /\ \A i \in DOMAIN e :
         /\ e[i].k = t[i].k
         /\ e[i].id = t[i].id
         /\ IF i < Len(e) THEN e[i].n = t[i].n ELSE e[i].n >= 1 /\ e[i].n <= t[i].n

\* C12: for a study text without a ```json marker the returned context has the
\* fallback flag set and a raw excerpt that is a prefix of the text, at most
\* 2000 characters long.
C12_FallbackWithoutMarker ==
    (Processed /\ ~HasMarker(study_result)) =>
        /\ contexto.fallback_mode
        /\ IsPrefixOfText(contexto.raw_study, study_result)
        /\ CharLen(contexto.raw_study) <= 2000

\* a text without marker longer than the cap has been cut to 2000 characters
C12_Witness ==
    /\ Processed
    /\ ~HasMarker(study_result)
    /\ CharLen(study_result) > 2000
    /\ contexto.fallback_mode
    /\ CharLen(contexto.raw_study) = 2000

\* the well-formed payloads of the text that sit in a fenced block: "```json",
\* the payload between optional whitespace, and a closing "```"
FencedPayloads(text) ==
    {text[p].id : p \in
        {p \in DOMAIN text :
            /\ text[p].k = "payload"
            /\ \E a, b \in DOMAIN text :
                 /\ a < p /\ p < b
                 /\ text[a].k = "json_fence"
                 /\ text[b].k = "fence"
                 /\ \A i \in (a + 1)..(b - 1) : i # p => text[i].k = "ws"}}

\* C13: for a study text that holds a well-formed payload in a ```json block,
\* the returned context has no fallback flag and its fields are those of a
\* fenced payload of the text, wherever the block sits and whatever other
\* fenced blocks the text holds.
C13_WellFormedPayloadParsed ==
    (Processed /\ FencedPayloads(study_result) # {}) =>
        /\ contexto.kind = "structured"
        /\ ~contexto.fallback_mode
        /\ contexto.fields \in FencedPayloads(study_result)

\* C14: for a study text with the marker but no well-formed payload block
\* (unparseable content, or no closing fence) the context is the degraded one:
\* fallback flag set, raw text cut to 2000 characters; and a stage that ran to
\* its end reports success.
C14_MalformedPayloadFallsBack ==
    (Processed /\ HasMarker(study_result) /\ FencedPayloads(study_result) = {}) =>
        /\ contexto.fallback_mode
        /\ contexto.raw_study = Slice(study_result, 2000)
        /\ (etapa2_result.returned /\ etapa2_result.error = "" => etapa2_result.success)

\* C15: the study stage returns success=false only when the text-generation
\* collaborator is unavailable or its call raises.
C15_StudyFailsOnlyOnGeneration ==
    (etapa2_result.returned /\ ~etapa2_result.success) =>
        etapa2_result.error \in {"Enhanced AI Manager nao disponivel",
                                 "generate_with_active_search raised"}

\* C16: the elapsed time a study stage returns (tempo_estudo) is at most the
\* 300-second budget plus a small slack, taken here as 5 seconds.
C16_StudyWithinBudget ==
    (etapa2_result.returned /\ etapa2_result.success) =>
        study_time <= 300 + 5

---------------------------------------------------------------------------
(* Claims about URL extraction and visual capture, checked under SpecUrls *)

\* the visual step of the collection stage is over
VisualDone == pc # "e1_visual"

\* C17: the list returned by _extract_urls_from_results holds no URL twice,
\* for every pair of source results, a source that repeats a URL included.
C17_ExtractedUrlsDistinct == NoDuplicates(all_urls)

\* the web source listed a URL twice and the URLs have been extracted
C17_Witness ==
    /\ VisualDone
    /\ ~NoDuplicates(websailor_results.fontes_detalhadas)
    /\ all_urls # <<>>

\* the URLs two lists have in common
Shared(f, q) == Range(f) \cap Range(q)

\* C18: for successful sources whose lists have n1 and n2 entries, each free
\* of internal duplicates, with k entries in common, the extracted list has
\* exactly n1 + n2 - k URLs.
C18_ExtractedCount ==
    LET f == websailor_results.fontes_detalhadas
        q == supadata_results.posts
    IN  (VisualDone /\ NoDuplicates(f) /\ NoDuplicates(q)) =>
            Len(all_urls) = Len(f) + Len(q) - Cardinality(Shared(f, q))

\* C19: the list handed to visual capture is the first 15 URLs of the
\* deduplicated list in order of first appearance, web sources first, then
\* social posts.
C19_CapturedInInsertionOrder ==
    \A i \in DOMAIN captured :
        captured[i] =
            Take(FirstAppearances(websailor_results.fontes_detalhadas
                                  \o supadata_results.posts), 15)

\* C20: visual capture is called at most once in a collection stage and never
\* with more than 15 URLs; when no URL was extracted it is not called and the
\* visual result is a failure value.
C20_CaptureCapped ==
    /\ Len(captured) <= 1
    /\ \A i \in DOMAIN captured : Len(captured[i]) <= 15
    /\ (VisualDone /\ all_urls = <<>>) =>
          /\ captured = <<>>
          /\ ~visual_results.success
          /\ visual_results.error = "Nenhuma URL encontrada"

\* more than 15 URLs were extracted and the capture was called with 15
C20_Witness ==
    /\ Len(all_urls) > 15
    /\ Len(captured) = 1
    /\ Len(captured[1]) = 15

---------------------------------------------------------------------------
(* Claims about the consolidated report, checked under SpecReport *)

\* the place of a module in modules_list
RegistryIndex(mod) == CHOOSE i \in 1..NumModules : modules_list[i] = mod

\* C11: the sections of the compiled report are the modules of modules_content
\* in the order of modules_list, whatever the order in which the contents
\* were inserted.
C11_SectionsInRegistryOrder ==
    report.written =>
        /\ Range(report.sections) = Range(modules_content)
        /\ \A i, j \in DOMAIN report.sections :
             i < j => RegistryIndex(report.sections[i]) < RegistryIndex(report.sections[j])

\* the contents were inserted against the registry order and the report has
\* its sections in registry order
C11_Witness ==
    /\ report.written
    /\ modules_content = <<"pre_pitch", "avatars">>
    /\ report.sections = <<"avatars", "pre_pitch">>

---------------------------------------------------------------------------
(* Further claims about generate_all_modules, checked under SpecGen *)

\* C21: at every point of a run each module marked 'success' in the result
\* map has its file saved under the session, so the files of the successful
\* modules among the first i exist when the run stops after the i-th; a module
\* whose generation or save raised is marked 'error'.
C21_SuccessfulModulesPersisted ==
    /\ WithStatus("success") \subseteq module_files
    /\ \A mod \in gen_raised : results.modules[mod].status = "error"

\* the run is in the middle of the loop, on a disk that was empty before it:
\* a module has been saved, another has failed, others are still to come
C21_Witness ==
    /\ gpc = "loop"
    /\ gi = 4
    /\ module_files = {"anti_objecao", "concorrencia"}
    /\ WithStatus("success") = {"anti_objecao", "concorrencia"}
    /\ WithStatus("error") = {"avatars"}

\* C22: the result map is write-once per key: a step of the run keeps every
\* entry the map already has, and adds at most the entry of the module it
\* processes, which had none.
C22_ResultMapWriteOnce ==
    [][gpc = "loop" =>
         /\ \A mod \in DOMAIN results.modules :
              /\ mod \in DOMAIN results'.modules
              /\ results'.modules[mod] = results.modules[mod]
         /\ (DOMAIN results'.modules) # (DOMAIN results.modules) =>
              /\ gi <= NumModules
              /\ modules_list[gi] \notin DOMAIN results.modules
              /\ (DOMAIN results'.modules) =
                   (DOMAIN results.modules) \cup {modules_list[gi]}]_vars

\* the run returned with entries of both kinds, written one by one
C22_Witness ==
    /\ GenReturned
    /\ results.modules["anti_objecao"].status = "error"
    /\ results.modules["avatars"].status = "success"
    /\ results.modules["cronograma_lancamento"].status = "error"

\* C23: every attempt issues exactly one generation call: the search call with
\* an iteration cap of 3 for concorrencia, predicoes_futuro and
\* insights_mercado, the plain call with max_tokens 4096 for the other 13.
C23_OneVariantPerModule ==
    /\ gpc = "loop" => Len(gen_calls) = gi - 1
    /\ \A i \in DOMAIN gen_calls :
         LET c == gen_calls[i] IN
         IF c.module \in {"concorrencia", "predicoes_futuro", "insights_mercado"}
         THEN c.variant = [name |-> "generate_with_tools", limit |-> 3]
         ELSE c.variant = [name |-> "generate_text", limit |-> 4096]
    /\ GenReturned =>
         Cardinality({i \in DOMAIN gen_calls :
                        gen_calls[i].variant.name = "generate_text"}) = 13

\* the run returned after 3 search calls and 13 plain calls
C23_Witness ==
    /\ GenReturned
    /\ Len(gen_calls) = 16
    /\ Cardinality({i \in DOMAIN gen_calls :
                      gen_calls[i].variant.name = "generate_with_tools"}) = 3

\* C24: the summary of the compiled report has one line per registry module,
\* in registry order, 16 in all, and the line's marker is the success marker
\* exactly when the module's status is 'success'.
C24_SummaryListsEveryModule ==
    report.written =>
        /\ Len(report.summary) = 16
        /\ \A i \in DOMAIN report.summary :
             /\ report.summary[i][1] = Title(modules_list[i])
             /\ (report.summary[i][2] = "ok") <=>
                    (modules_list[i] \in WithStatus("success"))
        /\ \A i, j \in DOMAIN report.summary :
             i # j => report.summary[i][1] # report.summary[j][1]

\* a report whose summary shows a failed module and a successful one
C24_Witness ==
    /\ report.written
    /\ "anti_objecao" \in WithStatus("error")
    /\ report.summary[1] = <<"Anti Objecao", "x">>
    /\ report.summary[2] = <<"Avatars", "ok">>

\* C26: the report states successful/total and the percentage
\* 100 * successful / total to one decimal place: the tenth nearest to it.
C26_SuccessRatio ==
    report.written =>
        LET good == Cardinality(WithStatus("success"))
            diff == 16 * report.taxa_sucesso - 1000 * good
        IN  /\ report.successful_modules = good
            /\ report.total_modules = 16
            /\ diff <= 8 /\ diff >= -8
            /\ good = 14 => report.taxa_sucesso = 875

\* 14 of 16 modules succeeded and the report states 14/16 and 87.5%
C26_Witness ==
    /\ report.written
    /\ report.successful_modules = 14
    /\ report.total_modules = 16
    /\ report.taxa_sucesso = 875

---------------------------------------------------------------------------
(* Further claims about execute_complete_analysis, checked under Spec *)

\* the data sources, modules and stages that failed in this run
FailedSources ==
    {src \in {"websailor", "supadata", "visual"} :
        \/ src = "websailor" /\ etapa1_result.error = "websailor raised"
        \/ src = "supadata" /\ supadata_results.error = "search failed"
        \/ src = "visual" /\ visual_results.error = "capture failed"}

FailedStages ==
    {st \in {"etapa1", "etapa2", "etapa3"} :
        \/ st = "etapa1" /\ etapa1_result.returned /\ ~etapa1_result.success
        \/ st = "etapa2" /\ etapa2_result.returned /\ ~etapa2_result.success
        \/ st = "etapa3" /\ etapa3_result.returned /\ ~etapa3_result.success}

\* C27: every failure has its record in the error sink, keyed by the name of
\* the data source, module or stage that failed.
C27_EveryFailureRecorded ==
    pc = "done" =>
        \A name \in FailedSources \cup FailedStages \cup gen_raised :
            \E i \in DOMAIN error_sink : error_sink[i].nome = name

\* C28: the returned result has one of two shapes, both with the caller's
\* session_id: success=false with error, session_id and timestamp; or
\* success=true with session_id, 3 completed stages, the elapsed time, the
\* stage results, the final report path and the module count.
C28_ResultShapes ==
    Returned =>
        /\ IF result.success
           THEN /\ DOMAIN result =
                     {"success", "session_id", "etapas_completadas", "tempo_total",
                      "etapa1_dados", "etapa2_estudo", "etapa3_relatorio",
                      "relatorio_final_path", "modulos_gerados", "timestamp"}
                /\ result.etapas_completadas = 3
                /\ result.etapa1_dados = etapa1_result
                /\ result.etapa2_estudo = etapa2_result
                /\ result.etapa3_relatorio = etapa3_result
           ELSE /\ DOMAIN result = {"success", "error", "session_id", "timestamp"}
                /\ result.error = pending
        /\ result.session_id = args.session_id

\* a run of session s2 failed in the study stage and returned the failure shape
C28_Witness ==
    /\ Returned
    /\ ~result.success
    /\ result.error = "Falha na Etapa 2: Estudo Profundo"
    /\ args.session_id = "s2"
    /\ result.session_id = "s2"

\* C30: in the generation stage the report compiler is called only after
\* module generation returned success; the stage returns success=true only
\* when both returned success; otherwise it returns success=false with the
\* error text, and it never raises.
C30_GenerationStage ==
    /\ Called("compile_final_markdown_report") =>
          /\ Called("process_all_modules")
          /\ etapa3_result.error \notin
               {"Falha na geracao dos modulos",
                "'EnhancedModuleProcessor' object has no attribute 'process_all_modules'"}
    /\ (etapa3_result.returned /\ etapa3_result.success) =>
          /\ Called("process_all_modules")
          /\ Called("compile_final_markdown_report")
    /\ (etapa3_result.returned /\ ~etapa3_result.success) => etapa3_result.error # ""
    /\ (Called("etapa3") /\ pc # "e3") => etapa3_result.returned

\* the stage was entered, module generation failed, the compiler was not
\* called and the stage returned success=false with the error
C30_Witness ==
    /\ pc = "finish"
    /\ Called("process_all_modules")
    /\ ~Called("compile_final_markdown_report")
    /\ etapa3_result.returned
    /\ ~etapa3_result.success
    /\ etapa3_result.error # ""

---------------------------------------------------------------------------
(* Claims about interleaved calls, checked under SpecRuns *)

\* C29: with two calls of different session ids interleaved on the shared
\* instance, every artifact a call has persisted lies under its own session
\* id and still holds what that call wrote, and each returned result carries
\* the call's own session_id.
C29_ArtifactsNamespaced ==
    \A r \in Runs :
        /\ \A key \in wrote[r] :
             /\ key[1] = rsession[r]
             /\ store[key] = r
        /\ rpc[r] = "done" => rresult[r].session_id = rsession[r]

---------------------------------------------------------------------------
(* Claims about the base data, the counters and the status report of
   generate_all_modules, checked under SpecGen *)

\* one of the two base files of the session is missing or has no content
BaseDataMissing ==
    \/ base_data.relatorio_coleta \in {"absent", "empty"}
    \/ base_data.resumo_sintese \in {"absent", "empty"}

\* C31: when the collection report or the synthesis summary of the session is
\* absent or empty, generate_all_modules raises without attempting a module:
\* no step of the call issues a generation call, writes a module file, writes
\* the consolidated report or creates a result map, and the call ends raising.
C31_NoBaseDataNoGeneration ==
    [][BaseDataMissing =>
          /\ gen_calls' = <<>>
          /\ module_files' = module_files
          /\ report' = NoReport
          /\ results' = NoResults
          /\ greturn' # "returned"
          /\ gpc = "idle" => (gpc' = "done" /\ greturn' = "raised")]_vars

\* C31 witness: a call that raised on a session whose collection report is
\* there and whose synthesis summary is empty
C31_Witness ==
    /\ gpc = "done"
    /\ greturn = "raised"
    /\ base_data.relatorio_coleta = "present"
    /\ base_data.resumo_sintese = "empty"
    /\ gen_calls = <<>>

\* C32: at every point of the module loop successful_modules + failed_modules
\* is the number of entries of results['modules'], which is the number of
\* modules attempted so far and never more than total_modules (16); the
\* errors list has exactly failed_modules entries.
C32_CountersAgree ==
    gpc = "loop" =>
        /\ results.successful_modules + results.failed_modules
              = Cardinality(DOMAIN results.modules)
        /\ Cardinality(DOMAIN results.modules) = Len(gen_calls)
        /\ Len(gen_calls) = gi - 1
        /\ Len(gen_calls) <= results.total_modules
        /\ results.total_modules = 16
        /\ Len(results.errors) = results.failed_modules

\* C32 witness: the loop half-way, with three modules failed and five generated
C32_Witness ==
    /\ gpc = "loop"
    /\ gi = 9
    /\ results.failed_modules = 3
    /\ results.successful_modules = 5
    /\ Len(results.errors) = 3

\* C33: after the generation runs on a session, get_module_status reports a
\* module as existing if and only if the module's status in the most recent
\* generate_all_modules result is 'success', and generated_modules is that
\* run's successful_modules.
C33_StatusMatchesLastRun ==
    (GenReturned /\ module_status # NoStatus) =>
        /\ \A m \in ModuleNames :
              module_status.modules[m].exists <=> results.modules[m].status = "success"
        /\ module_status.generated_modules = results.successful_modules

---------------------------------------------------------------------------
(* Claims about the social block of the collection stage, checked under Spec *)

\* position of the first occurrence of a call in the log, 0 when it was not made
FirstCall(ev) ==
    IF Called(ev) THEN CHOOSE i \in DOMAIN log :
                           log[i] = ev /\ \A j \in 1..(i - 1) : log[j] # ev
    ELSE 0

SocialCalls ==
    {"supadata.search", "supadata.get_profile_analytics",
     "supadata.get_hashtag_analytics"}

\* the social block of the stage was reached and is over
SocialBlockDone ==
    /\ pc \notin {"idle", "e1_websailor", "e1_supadata", "e1_analytics"}
    /\ etapa1_result.error # "websailor raised"

\* C34: in the collection stage the social client is queried only when it
\* reports itself available; the profile and hashtag analytics calls are
\* issued only after the social search returned success=true, and always
\* after it; when the client is unavailable no social call is made and the
\* social result is a failure value that does not fail the stage.
C34_SocialBlockGuards ==
    /\ (\E ev \in SocialCalls : Called(ev)) => supadata_available
    /\ \A ev \in {"supadata.get_profile_analytics", "supadata.get_hashtag_analytics"} :
          Called(ev) =>
              /\ Called("supadata.search")
              /\ FirstCall("supadata.search") < FirstCall(ev)
              /\ supadata_results.success
    /\ Called("supadata.get_hashtag_analytics") =>
          FirstCall("supadata.get_profile_analytics")
              < FirstCall("supadata.get_hashtag_analytics")
    /\ (SocialBlockDone /\ Called("supadata.search") /\ supadata_results.success) =>
          Called("supadata.get_profile_analytics")
    /\ (SocialBlockDone /\ ~supadata_available) =>
          /\ \A ev \in SocialCalls : ~Called(ev)
          /\ ~supadata_results.success
          /\ supadata_results.error = "Supadata nao configurado"
          /\ etapa1_result.error \notin
               {"supadata.search raised", "supadata.get_profile_analytics raised",
                "supadata.get_hashtag_analytics raised"}

\* C34 witness: the client was unavailable, no social call was made and the
\* stage still returned success
C34_Witness ==
    /\ ~supadata_available
    /\ etapa1_result.returned
    /\ etapa1_result.success
    /\ ~supadata_results.success
    /\ \A ev \in SocialCalls : ~Called(ev)

---------------------------------------------------------------------------
(* Termination: SpecLive *)

\* a call of execute_complete_analysis, or a call of generate_all_modules on
\* a session without module files
InitLive == Init \/ (InitGen /\ module_files = {})

\* the call a behaviour follows is the one its initial state prepared: the
\* base data of a session is there only for generate_all_modules
NextLive ==
    \/ base_data = NoBaseData /\ Next
    \/ base_data # NoBaseData /\ (GenCall \/ GenModule \/ GenFinish)

\* Every step of either call is a collaborator call awaited by the coroutine
\* (or straight-line code between two of them).  Under the assumption that
\* each collaborator call returns or raises, the event loop resumes the
\* coroutine, so a step that stays enabled is eventually taken: weak
\* fairness on the steps of each call.
SpecLive == InitLive /\ [][NextLive]_vars /\ WF_vars(NextLive)

---------------------------------------------------------------------------
(* SocialMediaExtractor: the per-platform searches, SpecSocial *)

\* the orchestrator, the generator and the interleaved calls are idle while
\* the extractor or the trend client is exercised on its own
OthersIdle ==
    /\ pc = "idle"
    /\ args = NoArgs
    /\ current_session = ""
    /\ log = <<>>
    /\ websailor_results = NoWeb
    /\ supadata_results = NoSocial
    /\ visual_results = NoVisual
    /\ all_urls = <<>>
    /\ captured = <<>>
    /\ study_result = <<>>
    /\ study_time = 0
    /\ contexto = NoContext
    /\ etapa1_result = NoStage
    /\ etapa2_result = NoStage
    /\ etapa3_result = NoStage
    /\ pending = ""
    /\ files = {}
    /\ saved = <<>>
    /\ error_sink = <<>>
    /\ outcome = "none"
    /\ result = NoResult
    /\ GenIdle
    /\ RunsIdle
    /\ supadata_available = FALSE

Platforms == <<"youtube", "twitter", "instagram", "linkedin">>

\* the environment variable each search reads (lines 201, 258, 311, 339)
ApiKey(platform) ==
    CASE platform = "youtube" -> "YOUTUBE_API_KEY"
      [] platform = "twitter" -> "SERPER_API_KEY"
      [] platform = "instagram" -> "FIRECRAWL_API_KEY"
      [] platform = "linkedin" -> "SERPER_API_KEY"

\* the largest max_results of a call in the model: above every platform cap
MaxResults == 13
\* the most items an API response carries in the model
MaxItems == 2

Min(a, b) == IF a <= b THEN a ELSE b

\* lines 88, 117, 144, 171: the cap of range(min(max_results, cap))
PlatformCap(platform) ==
    CASE platform = "youtube" -> 8
      [] platform = "twitter" -> 12
      [] platform = "instagram" -> 10
      [] platform = "linkedin" -> 8

\* lines 99, 113-128: the 'sentiment' of the i-th simulated post (i from 0);
\* the instagram and linkedin posts have no such key
SimulatedSentiment(platform, i) ==
    CASE platform = "youtube" -> IF i % 3 = 0 THEN "positive" ELSE "neutral"
      [] platform = "twitter" -> <<"positive", "negative", "neutral">>[(i % 3) + 1]
      [] OTHER -> "no key"

\* lines 84-195: _simulate_<platform>_data: range(min(max_results, cap)) posts,
\* total_found = len(results), no api_used key
_simulate_data(platform, max_results) ==
    LET posts == [i \in 1..Min(max_results, PlatformCap(platform)) |->
                     SimulatedSentiment(platform, i - 1)]
    IN  [outcome |-> "returned", success |-> TRUE, platform |-> platform,
         results |-> posts, total_found |-> Len(posts), api_used |-> "no key",
         simulated |-> TRUE]

\* what the HTTP request of a search can do: raise (a timeout, a connection
\* error, a body that is no JSON), answer with an error status, or answer 200
\* with some items
HttpOutcomes ==
    {[kind |-> "raises", status |-> 0, items |-> 0]}
    \cup {[kind |-> "status", status |-> st, items |-> 0] : st \in {403, 500}}
    \cup {[kind |-> "status", status |-> 200, items |-> n] : n \in 0..MaxItems}

\* lines 218-243, 275-298, 356-378: the result built from a 200 response: one
\* entry per item, none with a 'sentiment' key
ApiResult(platform, http) ==
    [outcome |-> "returned", success |-> TRUE, platform |-> platform,
     results |-> [i \in 1..http.items |-> "no key"], total_found |-> http.items,
     api_used |-> "True", simulated |-> FALSE]

\* a search that reports the failed request to its caller
OnRequestFailure_Report(platform, max_results) ==
    [outcome |-> "returned", success |-> FALSE, platform |-> platform,
     results |-> <<>>, total_found |-> 0, api_used |-> "no key", simulated |-> FALSE]

\* lines 244-250, 299-305, 379-385: the else branch of the status test and the
\* except clause both return the simulated data of the platform
OnRequestFailure(platform, max_results) == _simulate_data(platform, max_results)

\* lines 197-250, 254-305, 335-385: _search_youtube_real, _search_twitter_real
\* and _search_linkedin_real: without the key the simulated data; else one
\* request, whose 200 answer gives the API result
SearchWithRequest(platform, keys, max_results, http) ==
    IF ApiKey(platform) \notin keys
    THEN _simulate_data(platform, max_results)
    ELSE IF http.kind = "status" /\ http.status = 200
         THEN ApiResult(platform, http)
         ELSE OnRequestFailure(platform, max_results)

_search_youtube_real(keys, max_results, http) ==
    SearchWithRequest("youtube", keys, max_results, http)

_search_twitter_real(keys, max_results, http) ==
    SearchWithRequest("twitter", keys, max_results, http)

_search_linkedin_real(keys, max_results, http) ==
    SearchWithRequest("linkedin", keys, max_results, http)

\* lines 307-333: _search_instagram_real issues no request: without the key
\* the simulated data, with it the simulated posts under
\* total_found = min(max_results, 10) and api_used = False
_search_instagram_real(keys, max_results, http) ==
    IF ApiKey("instagram") \notin keys
    THEN _simulate_data("instagram", max_results)
    ELSE [_simulate_data("instagram", max_results) EXCEPT
             !.total_found = Min(max_results, 10), !.api_used = "False"]

\* the keys of the environment the extractor runs in
InitSocial ==
    /\ OthersIdle
    /\ TrendIdle
    /\ env_keys \in SUBSET {"YOUTUBE_API_KEY", "SERPER_API_KEY", "FIRECRAWL_API_KEY"}
    /\ search_result = NoSearch
    /\ platforms_data = NoPlatformsData
    /\ sentiment_analysis = NoAnalysis

SocialFrame ==
    /\ UNCHANGED <<supadata_available, env_keys, platforms_data, sentiment_analysis,
                   mcp_url, http_requests, tf_results>>
    /\ UNCHANGED ovars
    /\ UNCHANGED gvars
    /\ UNCHANGED cvars

\* the call and what it gave
Searched(platform, max_results, http, r) ==
    [platform |-> platform, max_results |-> max_results,
     http |-> IF ApiKey(platform) \in env_keys /\ platform # "instagram"
              THEN http.kind ELSE "no request",
     status |-> IF ApiKey(platform) \in env_keys /\ platform # "instagram"
                THEN http.status ELSE 0,
     outcome |-> r.outcome, success |-> r.success, results |-> r.results,
     total_found |-> r.total_found, api_used |-> r.api_used,
     simulated |-> r.simulated]

SearchYoutube ==
    /\ \E n \in 0..MaxResults, http \in HttpOutcomes :
          search_result' =
              Searched("youtube", n, http, _search_youtube_real(env_keys, n, http))
    /\ SocialFrame

SearchTwitter ==
    /\ \E n \in 0..MaxResults, http \in HttpOutcomes :
          search_result' =
              Searched("twitter", n, http, _search_twitter_real(env_keys, n, http))
    /\ SocialFrame

SearchInstagram ==
    /\ \E n \in 0..MaxResults, http \in HttpOutcomes :
          search_result' =
              Searched("instagram", n, http, _search_instagram_real(env_keys, n, http))
    /\ SocialFrame

SearchLinkedin ==
    /\ \E n \in 0..MaxResults, http \in HttpOutcomes :
          search_result' =
              Searched("linkedin", n, http, _search_linkedin_real(env_keys, n, http))
    /\ SocialFrame

NextSocial == SearchYoutube \/ SearchTwitter \/ SearchInstagram \/ SearchLinkedin

SpecSocial == InitSocial /\ [][NextSocial]_vars

\* C36: each per-platform search never raises and always returns
\* success=true; when the API key is missing, the HTTP status is not 200 or
\* the request raises, it returns the simulated data of the platform, whose
\* result count is min(max_results, platform cap) and equals total_found.
C36_SearchAlwaysSucceeds ==
    search_result # NoSearch =>
        /\ search_result.outcome = "returned"
        /\ search_result.success
        /\ (\/ ApiKey(search_result.platform) \notin env_keys
            \/ search_result.http = "raises"
            \/ search_result.http = "status" /\ search_result.status # 200) =>
              /\ search_result.simulated
              /\ Len(search_result.results)
                    = Min(search_result.max_results, PlatformCap(search_result.platform))
              /\ search_result.total_found = Len(search_result.results)

\* C36 witness: the twitter search with the key set, whose request raised,
\* returned the 12 simulated posts for max_results = 13
C36_Witness ==
    /\ search_result.platform = "twitter"
    /\ "SERPER_API_KEY" \in env_keys
    /\ search_result.http = "raises"
    /\ search_result.max_results = 13
    /\ search_result.success
    /\ search_result.total_found = 12

---------------------------------------------------------------------------
(* SocialMediaExtractor.analyze_sentiment_trends: SpecSentiment *)

\* the most posts of one sentiment a platform has in the model
MaxCount == 2

\* n posts with the given 'sentiment' value
Posts(n, sentiment) == [i \in 1..n |-> sentiment]

\* the results of a platform with p positive, n negative and u neutral posts
PostsOf(p, n, u) == Posts(p, "positive") \o Posts(n, "negative") \o Posts(u, "neutral")

\* line 406: post.get('sentiment', 'neutral'); lines 407-415 count every
\* value that is neither 'positive' nor 'negative' as neutral
SentimentOf(post) == IF post \in {"positive", "negative"} THEN post ELSE "neutral"

Count(posts, sentiment) ==
    Cardinality({i \in DOMAIN posts : SentimentOf(posts[i]) = sentiment})

\* line 424: the conditional expression of 'dominant_sentiment': the negative
\* branch compares with the positive count only
PlatformDominant(p, n, u) ==
    IF p > n /\ p > u THEN "positive"
    ELSE IF n > p THEN "negative"
    ELSE "neutral"

\* lines 427-431: overall_sentiment
OverallDominant(p, n, u) ==
    IF p > n /\ p > u THEN "positive"
    ELSE IF n > p /\ n > u THEN "negative"
    ELSE "neutral"

\* line 397: the keys of platforms_data the loop looks at
AnalysedPlatforms(data) ==
    {k \in DOMAIN data : k \in {"youtube", "twitter", "instagram", "linkedin"}}

RECURSIVE SumOver(_, _, _)
\* the running totals of lines 408-417, over the platforms of a set
SumOver(data, keys, sentiment) ==
    IF keys = {} THEN 0
    ELSE LET k == CHOOSE x \in keys : TRUE
         IN  Count(data[k], sentiment) + SumOver(data, keys \ {k}, sentiment)

RECURSIVE TotalPosts(_, _)
\* line 417: total_posts += len(results)
TotalPosts(data, keys) ==
    IF keys = {} THEN 0
    ELSE LET k == CHOOSE x \in keys : TRUE
         IN  Len(data[k]) + TotalPosts(data, keys \ {k})

\* lines 387-443: analyze_sentiment_trends; the record keeps the counters the
\* function holds when it returns next to the values it returns
analyze_sentiment_trends(data) ==
    LET keys == AnalysedPlatforms(data)
        total_positive == SumOver(data, keys, "positive")
        total_negative == SumOver(data, keys, "negative")
        total_neutral == SumOver(data, keys, "neutral")
        broken_down == {k \in keys : Len(data[k]) > 0}
    IN  [returned |-> TRUE,
         overall_sentiment |-> OverallDominant(total_positive, total_negative,
                                               total_neutral),
         total_positive |-> total_positive,
         total_negative |-> total_negative,
         total_neutral |-> total_neutral,
         total_posts_analyzed |-> TotalPosts(data, keys),
         platform_breakdown |->
             [k \in broken_down |->
                 [positive |-> Count(data[k], "positive"),
                  negative |-> Count(data[k], "negative"),
                  neutral |-> Count(data[k], "neutral"),
                  total_posts |-> Len(data[k]),
                  dominant_sentiment |->
                      PlatformDominant(Count(data[k], "positive"),
                                       Count(data[k], "negative"),
                                       Count(data[k], "neutral"))]]]

\* the data handed to the analysis: posts with a sentiment for youtube and
\* twitter, posts without the key for instagram and linkedin (as the searches
\* build them), and the other keys of a search_all_platforms result
InitSentiment ==
    /\ OthersIdle
    /\ TrendIdle
    /\ env_keys = {}
    /\ search_result = NoSearch
    /\ \E yp, yn, yu, tp, tn, tu \in 0..MaxCount, ig, li \in 0..1 :
          platforms_data =
              [k \in {"youtube", "twitter", "instagram", "linkedin", "query"} |->
                  CASE k = "youtube" -> PostsOf(yp, yn, yu)
                    [] k = "twitter" -> PostsOf(tp, tn, tu)
                    [] k = "instagram" -> Posts(ig, "no key")
                    [] k = "linkedin" -> Posts(li, "no key")
                    [] k = "query" -> <<>>]
    /\ sentiment_analysis = NoAnalysis

Analyze ==
    /\ ~sentiment_analysis.returned
    /\ sentiment_analysis' = analyze_sentiment_trends(platforms_data)
    /\ UNCHANGED <<supadata_available, env_keys, search_result, platforms_data,
                   mcp_url, http_requests, tf_results>>
    /\ UNCHANGED ovars
    /\ UNCHANGED gvars
    /\ UNCHANGED cvars

NextSentiment == Analyze

SpecSentiment == InitSentiment /\ [][NextSentiment]_vars

\* the sentiment whose count is strictly greater than each of the other two,
\* 'neutral' when there is none
StrictlyDominant(p, n, u) ==
    IF p > n /\ p > u THEN "positive"
    ELSE IF n > p /\ n > u THEN "negative"
    ELSE "neutral"

\* C37: in analyze_sentiment_trends the positive, negative and neutral counts
\* sum to total_posts_analyzed; the overall sentiment and each platform's
\* dominant sentiment are the sentiment whose count is strictly greater than
\* each of the other two, 'neutral' when there is none, so that the two rules
\* agree on every count triple.
C37_DominantSentiment ==
    sentiment_analysis.returned =>
        LET a == sentiment_analysis IN
        /\ a.total_positive + a.total_negative + a.total_neutral
              = a.total_posts_analyzed
        /\ a.overall_sentiment
              = StrictlyDominant(a.total_positive, a.total_negative, a.total_neutral)
        /\ \A k \in DOMAIN a.platform_breakdown :
              LET b == a.platform_breakdown[k] IN
              /\ b.positive + b.negative + b.neutral = b.total_posts
              /\ b.dominant_sentiment = StrictlyDominant(b.positive, b.negative, b.neutral)

---------------------------------------------------------------------------
(* TrendFinderClient: SpecTrend *)

\* the most calls of the client in a behaviour of the model
MaxTrendCalls == 2

\* line 23: os.getenv('TRENDFINDER_MCP_URL'): None, or the value, which may
\* be empty
McpUrls == {None, "", "http://trendfinder:8080"}

\* a test that takes every value that is set, the empty one included
Truthy_NotNone(url) == url # None

\* lines 39, 136, 184: 'not self.mcp_url' and bool(self.mcp_url): None and
\* the empty string are false
Truthy(url) == url \notin {None, ""}

\* line 182-184
is_available(url) == Truthy(url)

\* what the awaited post (and the reading of its body) can do
TrendHttp ==
    {[kind |-> "status", status |-> 200, body |-> b] : b \in {"json", "not json"}}
    \cup {[kind |-> "status", status |-> st, body |-> "text"] : st \in {404, 500}}
    \cup {[kind |-> "timeout", status |-> 0, body |-> ""]}
    \cup {[kind |-> "error", status |-> 0, body |-> msg] :
             msg \in {"", "connection refused"}}

\* lines 40-44, 137-141
NotConfigured ==
    [success |-> FALSE, error |-> <<"TRENDFINDER_MCP_URL nao configurado">>,
     source |-> "TrendFinder"]

TrendFailure(error) == [success |-> FALSE, error |-> error, source |-> "TrendFinder"]

\* lines 31-117: search: no request without the URL; a 200 answer whose body
\* parses gives the trends; another status, a timeout and any other exception
\* (a body that does not parse included) give success=False and a message
search(url, query, platforms, http) ==
    IF ~Truthy(url) THEN NotConfigured
    ELSE CASE http.kind = "status" /\ http.status = 200 /\ http.body = "json" ->
                [success |-> TRUE, source |-> "TrendFinder", query |-> query,
                 platforms_searched |->
                     IF platforms = <<>>
                     THEN <<"twitter", "instagram", "tiktok", "youtube">>
                     ELSE platforms]
           [] http.kind = "status" /\ http.status = 200 /\ http.body # "json" ->
                TrendFailure(<<"Erro inesperado: ", "json">>)
           [] http.kind = "status" /\ http.status # 200 ->
                TrendFailure(<<"Erro HTTP ", http.status, http.body>>)
           [] http.kind = "timeout" -> TrendFailure(<<"Timeout apos 60s">>)
           [] http.kind = "error" -> TrendFailure(<<"Erro inesperado: ", http.body>>)

\* lines 129-180: get_trending_hashtags: the same, with one except clause whose
\* message is str(e) alone
get_trending_hashtags(url, category, http) ==
    IF ~Truthy(url) THEN NotConfigured
    ELSE CASE http.kind = "status" /\ http.status = 200 /\ http.body = "json" ->
                [success |-> TRUE, source |-> "TrendFinder", hashtags |-> <<>>]
           [] http.kind = "status" /\ http.status = 200 /\ http.body # "json" ->
                TrendFailure(<<"json">>)
           [] http.kind = "status" /\ http.status # 200 ->
                TrendFailure(<<"HTTP ", http.status>>)
           [] OTHER -> TrendFailure(<<http.body>>)

\* lines 60-68, 153-158: the post is issued only past the URL test
Requested(url) == Truthy(url)

InitTrend ==
    /\ OthersIdle
    /\ ExtractorIdle
    /\ mcp_url \in McpUrls
    /\ http_requests = <<>>
    /\ tf_results = <<>>

TrendFrame ==
    /\ UNCHANGED <<supadata_available, env_keys, search_result, platforms_data,
                   sentiment_analysis, mcp_url>>
    /\ UNCHANGED ovars
    /\ UNCHANGED gvars
    /\ UNCHANGED cvars

\* one call and what it gave; http is what the request did, when one was made
TrendCall(method, http, r) ==
    [method |-> method, outcome |-> "returned",
     requested |-> Requested(mcp_url),
     http |-> IF Requested(mcp_url) THEN http.kind ELSE "no request",
     status |-> IF Requested(mcp_url) THEN http.status ELSE 0,
     result |-> r]

TrendSearch ==
    /\ Len(tf_results) < MaxTrendCalls
    /\ \E query \in {"skincare"}, platforms \in {<<>>, <<"tiktok">>}, http \in TrendHttp :
          tf_results' = Append(tf_results,
              TrendCall("search", http, search(mcp_url, query, platforms, http)))
    /\ http_requests' = IF Requested(mcp_url)
                        THEN Append(http_requests, "search_trends")
                        ELSE http_requests
    /\ TrendFrame

TrendHashtags ==
    /\ Len(tf_results) < MaxTrendCalls
    /\ \E category \in {None, "beauty"}, http \in TrendHttp :
          tf_results' = Append(tf_results,
              TrendCall("get_trending_hashtags", http,
                        get_trending_hashtags(mcp_url, category, http)))
    /\ http_requests' = IF Requested(mcp_url)
                        THEN Append(http_requests, "get_trending_hashtags")
                        ELSE http_requests
    /\ TrendFrame

TrendIsAvailable ==
    /\ Len(tf_results) < MaxTrendCalls
    /\ tf_results' = Append(tf_results,
          [method |-> "is_available", outcome |-> "returned", requested |-> FALSE,
           http |-> "no request", status |-> 0,
           result |-> [success |-> is_available(mcp_url)]])
    /\ UNCHANGED http_requests
    /\ TrendFrame

NextTrend == TrendSearch \/ TrendHashtags \/ TrendIsAvailable

SpecTrend == InitTrend /\ [][NextTrend]_vars

\* the service URL is configured: the variable is set to a non-empty value
Configured == mcp_url \notin {None, ""}

\* C38: search and get_trending_hashtags never raise; without a configured URL
\* they return success=false and issue no HTTP request; they return
\* success=true only when the response status is 200; on a timeout, a non-200
\* status or any other exception they return success=false with an error
\* text; is_available is true exactly when the URL is configured.
C38_TrendClientContained ==
    /\ ~Configured => http_requests = <<>>
    /\ \A i \in DOMAIN tf_results :
          LET c == tf_results[i] IN
          /\ c.outcome = "returned"
          /\ c.method = "is_available" => (c.result.success <=> Configured)
          /\ c.method \in {"search", "get_trending_hashtags"} =>
                /\ ~Configured => (~c.result.success /\ ~c.requested
                                   /\ "error" \in DOMAIN c.result)
                /\ c.result.success => (c.requested /\ c.http = "status" /\ c.status = 200)
                /\ (Configured /\ (c.http \in {"timeout", "error"}
                                   \/ (c.http = "status" /\ c.status # 200))) =>
                      /\ ~c.result.success
                      /\ "error" \in DOMAIN c.result

\* C38 witness: with the URL configured a search timed out and a hashtags
\* call then got a 200 answer
C38_Witness ==
    /\ Configured
    /\ Len(tf_results) = 2
    /\ tf_results[1].method = "search"
    /\ tf_results[1].http = "timeout"
    /\ ~tf_results[1].result.success
    /\ tf_results[2].method = "get_trending_hashtags"
    /\ tf_results[2].result.success
    /\ Len(http_requests) = 2

============================================================================
